---- MODULE Spec2Model ----
(***************************************************************************)
(* A model of the Wordle bot (src/bot/wordle_bot.py) and of the two game   *)
(* classes it is built on (src/game/wordle_game.py, src/game/wordle.py).   *)
(*                                                                         *)
(* A word is a sequence of one-letter strings, a feedback a sequence of    *)
(* <<letter, color>> pairs.  Python lists are 0-based, sequences here are  *)
(* 1-based: position i of the source is position i+1 of the model.         *)
(***************************************************************************)
EXTENDS Integers, Sequences, FiniteSets

\* ------------------------------------------------------------------ bounds
\* Longest word over Alphabet the routines are run on, besides the
\* five-letter NamedWords.
MaxLen == 2
\* Largest candidate set drawn besides the whole vocabulary of a length.
MaxSet == 2

\* ------------------------------------------------------------- vocabulary
Alphabet == {"A", "E"}

SPEED == <<"S", "P", "E", "E", "D">>
ERASE == <<"E", "R", "A", "S", "E">>
CRANE == <<"C", "R", "A", "N", "E">>
SLATE == <<"S", "L", "A", "T", "E">>
ROATE == <<"R", "O", "A", "T", "E">>
WHEAT == <<"W", "H", "E", "A", "T">>
INLET == <<"I", "N", "L", "E", "T">>

\* The five-letter words of the word lists that the examples use.
NamedWords == {SPEED, ERASE, CRANE, SLATE, ROATE, WHEAT, INLET}

\* Every word the routines are run on.
AllWords == (UNION {[1..n -> Alphabet] : n \in 1..MaxLen}) \cup NamedWords

\* The words of one length: the vocabulary a session of that length draws on.
Vocab(n) == {w \in AllWords : Len(w) = n}

\* The candidate sets drawn for a guess of length n.
CandidateSets(n) ==
    {S \in SUBSET Vocab(n) : Cardinality(S) <= MaxSet} \cup {Vocab(n)}

\* ------------------------------------------------------------------ Color
GREEN == "green"
YELLOW == "yellow"
GRAY == "gray"
Color == {GREEN, YELLOW, GRAY}

\* Python's None, written into the working lists to mark a used letter.
None == "None"

\* No target: the interactive loops know only the guess and the typed code.
NoTarget == <<>>

\* x in list
In(x, list) == \E k \in 1..Len(list) : list[k] = x

\* list.index(x): the first position holding x.
Index(list, x) ==
    CHOOSE k \in 1..Len(list) :
        list[k] = x /\ \A j \in 1..(k - 1) : list[j] # x

\* ---------------------------------------- game/wordle_game.py _get_feedback
\* Mutant of the first loop: an exact match is recorded but its letter is
\* left in target_list, where the second loop can credit it again.
RECURSIVE WordleGame_green_loop_keeps_letter(_, _)
WordleGame_green_loop_keeps_letter(i, st) ==
    IF i > Len(st.guess_list) THEN st
    ELSE IF st.guess_list[i] = st.target_list[i]
         THEN WordleGame_green_loop_keeps_letter(i + 1,
                [feedback |-> Append(st.feedback, <<st.guess_list[i], GREEN>>),
                 target_list |-> st.target_list,
                 guess_list |-> [st.guess_list EXCEPT ![i] = None]])
         ELSE WordleGame_green_loop_keeps_letter(i + 1, st)

\* First loop: the exact matches, appended to feedback in the order found.
RECURSIVE WordleGame_green_loop(_, _)
WordleGame_green_loop(i, st) ==
    IF i > Len(st.guess_list) THEN st
    ELSE IF st.guess_list[i] = st.target_list[i]
         THEN WordleGame_green_loop(i + 1,
                [feedback |-> Append(st.feedback, <<st.guess_list[i], GREEN>>),
                 target_list |-> [st.target_list EXCEPT ![i] = None],
                 guess_list |-> [st.guess_list EXCEPT ![i] = None]])
         ELSE WordleGame_green_loop(i + 1, st)

\* Mutant of the second loop: a YELLOW credit does not use up a letter.
RECURSIVE WordleGame_yellow_loop_no_consume(_, _)
WordleGame_yellow_loop_no_consume(i, st) ==
    IF i > Len(st.guess_list) THEN st
    ELSE IF st.guess_list[i] # None
         THEN IF In(st.guess_list[i], st.target_list)
              THEN WordleGame_yellow_loop_no_consume(i + 1,
                     [st EXCEPT
                        !.feedback = Append(@, <<st.guess_list[i], YELLOW>>)])
              ELSE WordleGame_yellow_loop_no_consume(i + 1,
                     [st EXCEPT
                        !.feedback = Append(@, <<st.guess_list[i], GRAY>>)])
         ELSE WordleGame_yellow_loop_no_consume(i + 1, st)

\* Second loop: the positions left, appended after the exact matches.
RECURSIVE WordleGame_yellow_loop(_, _)
WordleGame_yellow_loop(i, st) ==
    IF i > Len(st.guess_list) THEN st
    ELSE IF st.guess_list[i] # None
         THEN IF In(st.guess_list[i], st.target_list)
              THEN WordleGame_yellow_loop(i + 1,
                     [st EXCEPT
                        !.feedback = Append(@, <<st.guess_list[i], YELLOW>>),
                        !.target_list[Index(st.target_list, st.guess_list[i])] = None])
              ELSE WordleGame_yellow_loop(i + 1,
                     [st EXCEPT
                        !.feedback = Append(@, <<st.guess_list[i], GRAY>>)])
         ELSE WordleGame_yellow_loop(i + 1, st)

\* Mutant of _get_feedback: the first loop is skipped, so a letter at its own
\* position is only found "in the word".
WordleGame_get_feedback_no_green_pass(self_target, guess) ==
    WordleGame_yellow_loop(1,
        [feedback |-> <<>>, target_list |-> self_target,
         guess_list |-> guess]).feedback

\* WordleGame._get_feedback(guess) of a game whose target is self_target.
WordleGame_get_feedback(self_target, guess) ==
    WordleGame_yellow_loop(1,
        WordleGame_green_loop(1,
            [feedback |-> <<>>, target_list |-> self_target,
             guess_list |-> guess])).feedback

\* --------------------------------------------- game/wordle.py _get_feedback
\* First loop: one entry per position, GREEN or a None placeholder.
RECURSIVE Wordle_green_loop(_, _)
Wordle_green_loop(i, st) ==
    IF i > Len(st.guess_list) THEN st
    ELSE IF st.guess_list[i] = st.target_list[i]
         THEN Wordle_green_loop(i + 1,
                [feedback |-> Append(st.feedback, <<st.guess_list[i], GREEN>>),
                 target_list |-> [st.target_list EXCEPT ![i] = None],
                 guess_list |-> [st.guess_list EXCEPT ![i] = None]])
         ELSE Wordle_green_loop(i + 1,
                [st EXCEPT !.feedback = Append(@, <<st.guess_list[i], None>>)])

\* Second loop: the placeholders are overwritten in place.
RECURSIVE Wordle_yellow_loop(_, _)
Wordle_yellow_loop(i, st) ==
    IF i > Len(st.guess_list) THEN st
    ELSE IF st.guess_list[i] # None
         THEN IF In(st.guess_list[i], st.target_list)
              THEN Wordle_yellow_loop(i + 1,
                     [st EXCEPT
                        !.feedback[i] = <<st.guess_list[i], YELLOW>>,
                        !.target_list[Index(st.target_list, st.guess_list[i])] = None])
              ELSE Wordle_yellow_loop(i + 1,
                     [st EXCEPT !.feedback[i] = <<st.guess_list[i], GRAY>>])
         ELSE Wordle_yellow_loop(i + 1, st)

\* WordleGame._get_feedback(guess) of game/wordle.py.
Wordle_get_feedback(self_target, guess) ==
    Wordle_yellow_loop(1,
        Wordle_green_loop(1,
            [feedback |-> <<>>, target_list |-> self_target,
             guess_list |-> guess])).feedback

\* WordleGame._get_feedback raises IndexError: its first loop reads
\* target_list[i] for every i in range(len(guess_list)).
WordleGame_get_feedback_raises(self_target, guess) ==
    Len(guess) > Len(self_target)

\* ------------------------------------------------- bot/wordle_bot.py helpers
\* Mutant of the call: the helper's target is not overwritten, so the guess is
\* compared with the word the helper game drew for itself.
WordleBot_get_feedback_of_own_target(helper_target, guess, target) ==
    [feedback |-> WordleGame_get_feedback(helper_target, guess),
     helper_target |-> helper_target, raised |-> FALSE]

\* WordleBot._get_feedback: the shared helper's target is overwritten, the
\* helper asked, the target put back.  The result is the feedback and the
\* helper's target after the call.
WordleBot_get_feedback(helper_target, guess, target) ==
    LET original_target == helper_target
        scratch == target
    IN  IF WordleGame_get_feedback_raises(scratch, guess)
        THEN [feedback |-> <<>>, helper_target |-> scratch, raised |-> TRUE]
        ELSE [feedback |-> WordleGame_get_feedback(scratch, guess),
              helper_target |-> original_target, raised |-> FALSE]

\* _matches_feedback, first loop: [ok |-> FALSE] where the source returns
\* False, else the word list with the green positions marked.
RECURSIVE matches_green_loop(_, _, _, _)
matches_green_loop(i, word_list, guess_list, fb) ==
    IF i > Len(fb) THEN [ok |-> TRUE, word_list |-> word_list]
    ELSE IF fb[i][2] = GREEN
         THEN IF word_list[i] # guess_list[i]
              THEN [ok |-> FALSE, word_list |-> word_list]
              ELSE matches_green_loop(i + 1, [word_list EXCEPT ![i] = None],
                                      guess_list, fb)
         ELSE matches_green_loop(i + 1, word_list, guess_list, fb)

\* _matches_feedback, second loop.
RECURSIVE matches_yellow_loop(_, _, _, _)
matches_yellow_loop(i, word_list, guess_list, fb) ==
    IF i > Len(fb) THEN [ok |-> TRUE, word_list |-> word_list]
    ELSE IF fb[i][2] = YELLOW
         THEN IF ~In(guess_list[i], word_list)
              THEN [ok |-> FALSE, word_list |-> word_list]
              ELSE IF word_list[i] = guess_list[i]
              THEN [ok |-> FALSE, word_list |-> word_list]
              ELSE matches_yellow_loop(i + 1,
                     [word_list EXCEPT ![Index(word_list, guess_list[i])] = None],
                     guess_list, fb)
         ELSE matches_yellow_loop(i + 1, word_list, guess_list, fb)

\* _matches_feedback, third loop.
matches_gray_loop(word_list, guess_list, fb) ==
    \A i \in 1..Len(fb) : fb[i][2] = GRAY => ~In(guess_list[i], word_list)

\* WordleBot._matches_feedback(word, guess, feedback)
WordleBot_matches_feedback(word, guess, fb) ==
    LET after_green == matches_green_loop(1, word, guess, fb)
    IN  IF ~after_green.ok THEN FALSE
        ELSE LET after_yellow ==
                     matches_yellow_loop(1, after_green.word_list, guess, fb)
             IN  IF ~after_yellow.ok THEN FALSE
                 ELSE matches_gray_loop(after_yellow.word_list, guess, fb)

\* Mutant of _filter_words: the loop runs over the whole vocabulary instead
\* of the set passed in.
WordleBot_filter_words_whole_vocabulary(words, guess, fb) ==
    {word \in Vocab(Len(guess)) : WordleBot_matches_feedback(word, guess, fb)}

\* WordleBot._filter_words(words, guess, feedback): a set built from empty.
WordleBot_filter_words(words, guess, fb) ==
    {word \in words : WordleBot_matches_feedback(word, guess, fb)}

\* ------------------------------------------------------------------ scores
\* A score is the exact rational num / den of the float the source computes.
Rational(n, d) == [num |-> n, den |-> d]
NoScore == Rational(0, 0)

RECURSIVE SumOver(_, _)
SumOver(f, keys) ==
    IF keys = {} THEN 0
    ELSE LET k == CHOOSE x \in keys : TRUE
         IN  f[k] + SumOver(f, keys \ {k})

\* The feedback_counts dictionary both scores build: feedback tuple -> count.
feedback_counts(helper_target, guess, possible) ==
    LET fb(t) == WordleBot_get_feedback(helper_target, guess, t).feedback
    IN  [k \in {fb(t) : t \in possible} |->
            Cardinality({t \in possible : fb(t) = k})]

\* Mutant of _calculate_expected_remaining: the early return also takes the
\* one-word set.
WordleBot_calculate_expected_remaining_early(helper_target, guess, possible) ==
    IF Cardinality(possible) <= 1 THEN Rational(0, 1)
    ELSE LET counts == feedback_counts(helper_target, guess, possible)
             total == Cardinality(possible)
         IN  Rational(SumOver([k \in DOMAIN counts |-> counts[k] * counts[k]],
                              DOMAIN counts),
                      total)

\* WordleBot._calculate_expected_remaining: sum of (count / total) * count.
WordleBot_calculate_expected_remaining(helper_target, guess, possible) ==
    IF possible = {} THEN Rational(0, 1)
    ELSE LET counts == feedback_counts(helper_target, guess, possible)
             total == Cardinality(possible)
         IN  Rational(SumOver([k \in DOMAIN counts |-> counts[k] * counts[k]],
                              DOMAIN counts),
                      total)

\* floor(1000 * log2(k)) for k = 1 .. 32
Log2Milli ==
    <<0, 1000, 1584, 2000, 2321, 2584, 2807, 3000, 3169, 3321, 3459, 3584,
      3700, 3807, 3906, 4000, 4087, 4169, 4247, 4321, 4392, 4459, 4523, 4584,
      4643, 4700, 4754, 4807, 4857, 4906, 4954, 5000>>

\* WordleBot._calculate_entropy, in thousandths of a bit:
\* -sum (c/n) log2(c/n) = (n log2 n - sum c log2 c) / n.
WordleBot_calculate_entropy(helper_target, guess, possible) ==
    IF possible = {} THEN Rational(0, 1)
    ELSE LET counts == feedback_counts(helper_target, guess, possible)
             total == Cardinality(possible)
         IN  Rational(total * Log2Milli[total]
                        - SumOver([k \in DOMAIN counts |->
                                     counts[k] * Log2Milli[counts[k]]],
                                  DOMAIN counts),
                      total)

\* The typed code made a feedback (solve_interactive): G, Y, else gray.
code_to_feedback(guess, feedback_input) ==
    [i \in 1..Len(feedback_input) |->
        <<guess[i], IF feedback_input[i] = "G" THEN GREEN
                    ELSE IF feedback_input[i] = "Y" THEN YELLOW
                    ELSE GRAY>>]

\* The codes the prompt accepts for a guess: one of G, Y, X per letter (five
\* in the source, where every guess has five letters).
FeedbackCodes(guess) == [1..Len(guess) -> {"G", "Y", "X"}]

\* The target the helper game drew for itself when the bot was built.
HelperTargets == {ROATE, SLATE}

\* ------------------------------------------------------------------- state
VARIABLES
    guess,                \* the guess under evaluation
    target,               \* the secret word, NoTarget when only a code is known
    possible_words,       \* the candidate set
    game_helper_target,   \* WordleBot._game_helper.target
    feedback,             \* result of WordleBot._get_feedback, or the typed code
    wordle_feedback,      \* result of game/wordle.py's _get_feedback
    filtered,             \* result of WordleBot._filter_words
    expected,             \* result of _calculate_expected_remaining
    entropy,              \* result of _calculate_entropy
    pc,                   \* the call made last, or the place a loop is at
    la_words,             \* WordleBot.la_words: the answer vocabulary
    ta_words,             \* WordleBot.ta_words: the other guessable words
    spinner_active,       \* WordleBot._spinner_active
    spinner_thread,       \* WordleBot._spinner_thread: None or a Thread
    mode,                 \* the loop that is running
    valid_guesses,        \* the loop's local valid_guesses
    guesses,              \* the loop's local list of guesses
    previous_guesses,     \* solve_from_state: the entries still to replay
    game,                 \* the WordleGame instance played against
    candidates,           \* the pool the last _choose_optimal_guess scored
    scored,               \* candidates scored by the last _choose_optimal_guess
    reported,             \* "Invalid ..." lines printed so far
    typed_line,           \* the line input() returned last
    result,               \* the value the loop returned
    outcome,              \* the place the loop returned from
    frame,                \* locals of a _choose_optimal_guess call followed
                          \* step by step
    spinner,              \* the spinner thread: its position and its i
    threads,              \* every spinner thread started so far, over
                          \* several calls: its position and its i
    la_file,              \* dictionary/wordle-La.txt as the bot finds it
    ta_file               \* dictionary/wordle-Ta.txt as the bot finds it

\* The results of the single calls.
fn_vars == <<wordle_feedback, filtered, expected, entropy>>

\* The bot's own fields.
bot_vars == <<la_words, ta_words, spinner_active, spinner_thread>>

\* The state of one solving loop.
session_vars == <<mode, valid_guesses, guesses, previous_guesses, game,
                  candidates, scored, reported, typed_line, result, outcome>>

solver_vars == <<bot_vars, session_vars>>

\* The call followed step by step and the thread it starts.
thread_vars == <<frame, spinner, threads>>

\* The two word list files.
file_vars == <<la_file, ta_file>>

vars == <<guess, target, possible_words, game_helper_target, feedback,
          wordle_feedback, filtered, expected, entropy, pc, solver_vars,
          thread_vars, file_vars>>

\* The frame of no call and the thread not started.
NoFrame == [show_spinner |-> FALSE]
NoSpinner == [pc |-> "none", i |-> 0]

\* A file that was read before the model starts: its words are in la_words
\* and ta_words.
FileRead == [state |-> "read"]

\* No call is followed step by step, no thread was started and the word lists
\* are loaded.
ThreadsIdle ==
    /\ frame = NoFrame
    /\ spinner = NoSpinner
    /\ threads = <<>>
    /\ la_file = FileRead
    /\ ta_file = FileRead

\* A game that is not there.
NoGame == [attempts |-> 0]

\* No loop is running and no vocabulary is loaded: the single calls need none.
SolverIdle ==
    /\ la_words = {}
    /\ ta_words = {}
    /\ spinner_active = FALSE
    /\ spinner_thread = None
    /\ mode = "none"
    /\ valid_guesses = {}
    /\ guesses = <<>>
    /\ previous_guesses = <<>>
    /\ game = NoGame
    /\ candidates = <<>>
    /\ scored = 0
    /\ reported = 0
    /\ typed_line = <<>>
    /\ result = 0
    /\ outcome = "none"

Init ==
    /\ pc = "start"
    /\ guess \in AllWords
    /\ target \in Vocab(Len(guess)) \cup {NoTarget}
    /\ possible_words \in CandidateSets(Len(guess))
    /\ game_helper_target \in HelperTargets
    /\ feedback = <<>>
    /\ wordle_feedback = <<>>
    /\ filtered = {}
    /\ expected = NoScore
    /\ entropy = NoScore
    /\ SolverIdle
    /\ ThreadsIdle

\* feedback = self._get_feedback(guess, target)
GetFeedback ==
    /\ pc = "start"
    /\ target # NoTarget
    /\ LET r == WordleBot_get_feedback(game_helper_target, guess, target)
       IN  /\ feedback' = r.feedback
           /\ game_helper_target' = r.helper_target
    /\ pc' = "feedback"
    /\ UNCHANGED <<guess, target, possible_words, wordle_feedback, filtered,
                   expected, entropy>>
    /\ UNCHANGED solver_vars
    /\ UNCHANGED <<thread_vars, file_vars>>

\* The feedback typed at the prompt and converted to (letter, Color) pairs.
EnterFeedback ==
    /\ pc = "start"
    /\ target = NoTarget
    /\ \E feedback_input \in FeedbackCodes(guess) :
          feedback' = code_to_feedback(guess, feedback_input)
    /\ pc' = "feedback"
    /\ UNCHANGED <<guess, target, possible_words, game_helper_target,
                   wordle_feedback, filtered, expected, entropy>>
    /\ UNCHANGED solver_vars
    /\ UNCHANGED <<thread_vars, file_vars>>

\* game/wordle.py: feedback = self._get_feedback(guess) of a game on target
WordleGetFeedback ==
    /\ pc = "start"
    /\ target # NoTarget
    /\ wordle_feedback' = Wordle_get_feedback(target, guess)
    /\ pc' = "wordle_feedback"
    /\ UNCHANGED <<guess, target, possible_words, game_helper_target,
                   feedback, filtered, expected, entropy>>
    /\ UNCHANGED solver_vars
    /\ UNCHANGED <<thread_vars, file_vars>>

\* Mutant of the call: the candidate set passed in is pruned in place.
FilterWords_in_place ==
    /\ pc = "feedback"
    /\ filtered' = WordleBot_filter_words(possible_words, guess, feedback)
    /\ possible_words' = filtered'
    /\ pc' = "filtered"
    /\ UNCHANGED <<guess, target, game_helper_target,
                   feedback, wordle_feedback, expected, entropy>>
    /\ UNCHANGED solver_vars
    /\ UNCHANGED <<thread_vars, file_vars>>

\* self._filter_words(possible_words, guess, feedback)
FilterWords ==
    /\ pc = "feedback"
    /\ filtered' = WordleBot_filter_words(possible_words, guess, feedback)
    /\ pc' = "filtered"
    /\ UNCHANGED <<guess, target, possible_words, game_helper_target,
                   feedback, wordle_feedback, expected, entropy>>
    /\ UNCHANGED solver_vars
    /\ UNCHANGED <<thread_vars, file_vars>>

\* self._calculate_expected_remaining(guess, possible_words)
CalculateExpectedRemaining ==
    /\ pc = "start"
    /\ expected' = WordleBot_calculate_expected_remaining(
                       game_helper_target, guess, possible_words)
    /\ pc' = "expected"
    /\ UNCHANGED <<guess, target, possible_words, game_helper_target,
                   feedback, wordle_feedback, filtered, entropy>>
    /\ UNCHANGED solver_vars
    /\ UNCHANGED <<thread_vars, file_vars>>

\* self._calculate_entropy(guess, possible_words)
CalculateEntropy ==
    /\ pc = "start"
    /\ entropy' = WordleBot_calculate_entropy(
                      game_helper_target, guess, possible_words)
    /\ pc' = "entropy"
    /\ UNCHANGED <<guess, target, possible_words, game_helper_target,
                   feedback, wordle_feedback, filtered, expected>>
    /\ UNCHANGED solver_vars
    /\ UNCHANGED <<thread_vars, file_vars>>

Next ==
    \/ GetFeedback
    \/ EnterFeedback
    \/ WordleGetFeedback
    \/ FilterWords
    \/ CalculateExpectedRemaining
    \/ CalculateEntropy

Spec == Init /\ [][Next]_vars

\* ------------------------------------------- _get_feedback on any two words
\* The call as solve(target) makes it on a target the caller passed in: the
\* guess and the target are any two words, of equal length or not.
InitLengths ==
    /\ pc = "start"
    /\ guess \in AllWords
    /\ target \in AllWords
    /\ possible_words = {}
    /\ game_helper_target \in HelperTargets
    /\ feedback = <<>>
    /\ wordle_feedback = <<>>
    /\ filtered = {}
    /\ expected = NoScore
    /\ entropy = NoScore
    /\ SolverIdle
    /\ ThreadsIdle

\* self._get_feedback(guess, target), left by its return or by the IndexError
\* of the helper, which passes through it.
GetFeedbackOfAnyLength ==
    /\ pc = "start"
    /\ LET r == WordleBot_get_feedback(game_helper_target, guess, target)
       IN  /\ game_helper_target' = r.helper_target
           /\ IF r.raised
              THEN pc' = "IndexError" /\ UNCHANGED feedback
              ELSE pc' = "feedback" /\ feedback' = r.feedback
    /\ UNCHANGED <<guess, target, possible_words, fn_vars>>
    /\ UNCHANGED solver_vars
    /\ UNCHANGED <<thread_vars, file_vars>>

NextLengths == GetFeedbackOfAnyLength

SpecLengths == InitLengths /\ [][NextLengths]_vars

\* ==================================================== _choose_optimal_guess
CRUSH == <<"C", "R", "U", "S", "H">>
BATCH == <<"B", "A", "T", "C", "H">>
CATCH == <<"C", "A", "T", "C", "H">>
MATCH == <<"M", "A", "T", "C", "H">>
CHAMP == <<"C", "H", "A", "M", "P">>

\* best_guess = None
NoGuess == <<>>

\* float("inf")
Infinity == Rational(1, 0)

\* x < y on scores
Less(x, y) ==
    /\ x.den # 0
    /\ y.den # 0 => x.num * y.den < y.num * x.den

\* x + 0.5
PlusHalf(x) == Rational(2 * x.num + x.den, 2 * x.den)

\* list(s) of a set s: Python fixes no iteration order, every order is drawn.
RECURSIVE Orderings(_)
Orderings(S) ==
    IF S = {} THEN {<<>>}
    ELSE UNION {{<<x>> \o l : l \in Orderings(S \ {x})} : x \in S}

\* [w for w in candidates if not (w in seen or seen.add(w))]
RECURSIVE remove_duplicates(_, _)
remove_duplicates(list, seen) ==
    IF list = <<>> THEN <<>>
    ELSE IF Head(list) \in seen
         THEN remove_duplicates(Tail(list), seen)
         ELSE <<Head(list)>>
                \o remove_duplicates(Tail(list), seen \cup {Head(list)})

\* Mutant of the pool: the allowed guesses are added whatever the number of
\* candidates left.
candidate_pool_always_wide(possible_list, valid_list) ==
    remove_duplicates(possible_list \o valid_list, {})

\* The candidates list: the possible words alone when at most two are left,
\* else the possible words followed by the allowed guesses, without repeats.
candidate_pool(possible_list, valid_list) ==
    IF Len(possible_list) <= 2 THEN possible_list
    ELSE remove_duplicates(possible_list \o valid_list, {})

\* Mutant of the score: no bonus.
candidate_score_no_bonus(helper_target, candidate, possible) ==
    WordleBot_calculate_expected_remaining(helper_target, candidate, possible)

\* score = expected_remaining + (0 if guess in possible_words else 0.5)
candidate_score(helper_target, candidate, possible) ==
    LET expected_remaining ==
            WordleBot_calculate_expected_remaining(helper_target, candidate,
                                                   possible)
    IN  IF candidate \in possible THEN expected_remaining
        ELSE PlusHalf(expected_remaining)

\* The score of every word the loop can meet.  A score depends on the word
\* and the candidate set alone, so it is computed once for all pool orders.
candidate_scores(helper_target, possible, valid) ==
    {<<candidate, candidate_score(helper_target, candidate, possible)>> :
        candidate \in possible \cup valid}

\* The score of one candidate in that table.
score_of(scores, candidate) ==
    (CHOOSE entry \in scores : entry[1] = candidate)[2]

\* Mutant of the loop: the first candidate met is kept, whatever the scores.
score_loop_keeps_first(i, pool, scores, best) ==
    IF pool = <<>> THEN best
    ELSE [best_score |-> score_of(scores, pool[1]), best_guess |-> pool[1]]

\* for guess in candidates: ... if score < best_score: ...
RECURSIVE score_loop(_, _, _, _)
score_loop(i, pool, scores, best) ==
    IF i > Len(pool) THEN best
    ELSE LET score == score_of(scores, pool[i])
         IN  IF Less(score, best.best_score)
             THEN score_loop(i + 1, pool, scores,
                             [best_score |-> score, best_guess |-> pool[i]])
             ELSE score_loop(i + 1, pool, scores, best)

\* Mutant of _choose_optimal_guess: no early return for the single candidate.
WordleBot_choose_optimal_guess_scores_single(scores, possible_list, valid_list, show_spinner) ==
    LET pool == candidate_pool(possible_list, valid_list)
        best == score_loop(1, pool, scores,
                           [best_score |-> Infinity, best_guess |-> NoGuess])
    IN  [guess |-> IF best.best_guess # NoGuess THEN best.best_guess
                   ELSE IF pool # <<>> THEN pool[1] ELSE NoGuess,
         raised |-> best.best_guess = NoGuess /\ pool = <<>>,
         candidates |-> pool,
         scored |-> Len(pool),
         started |-> show_spinner]

\* WordleBot._choose_optimal_guess(possible_words, valid_guesses, show_spinner),
\* with the iteration orders of the two sets and the scores of their words as
\* inputs.  The result holds the guess returned (raised: candidates[0] of an
\* empty list), the pool, the number of candidates scored and whether the
\* spinner thread was started.
WordleBot_choose_optimal_guess(scores, possible_list, valid_list, show_spinner) ==
    IF Len(possible_list) = 1
    THEN [guess |-> possible_list[1], raised |-> FALSE, candidates |-> <<>>,
          scored |-> 0, started |-> FALSE]
    ELSE LET pool == candidate_pool(possible_list, valid_list)
             best == score_loop(1, pool, scores,
                                [best_score |-> Infinity,
                                 best_guess |-> NoGuess])
         IN  [guess |-> IF best.best_guess # NoGuess THEN best.best_guess
                        ELSE IF pool # <<>> THEN pool[1] ELSE NoGuess,
              raised |-> best.best_guess = NoGuess /\ pool = <<>>,
              candidates |-> pool,
              scored |-> Len(pool),
              started |-> show_spinner]

\* The words _choose_optimal_guess is run on.
ChooseWords == {CRUSH, BATCH, CATCH, MATCH, CHAMP}

\* A bot just built, about to choose from a candidate set and an allowed set.
InitChoose ==
    /\ pc = "start"
    /\ mode = "choose"
    /\ possible_words \in (SUBSET ChooseWords) \ {{}}
    /\ valid_guesses \in SUBSET ChooseWords
    /\ game_helper_target \in HelperTargets
    /\ la_words = ChooseWords
    /\ ta_words = {}
    /\ spinner_active = FALSE
    /\ spinner_thread = None
    /\ guess = NoGuess
    /\ target = NoTarget
    /\ feedback = <<>>
    /\ wordle_feedback = <<>>
    /\ filtered = {}
    /\ expected = NoScore
    /\ entropy = NoScore
    /\ guesses = <<>>
    /\ previous_guesses = <<>>
    /\ game = NoGame
    /\ candidates = <<>>
    /\ scored = 0
    /\ reported = 0
    /\ typed_line = <<>>
    /\ result = 0
    /\ outcome = "none"
    /\ ThreadsIdle

\* guess = self._choose_optimal_guess(possible_words, valid_guesses), with
\* show_spinner left at its default as at every call in the source.  The
\* thread is started, stopped in the finally clause and joined within the
\* call: afterwards _spinner_active is False and _spinner_thread is the thread.
ChooseOptimalGuess ==
    /\ pc = "start"
    /\ mode = "choose"
    /\ \E scores \in {candidate_scores(game_helper_target, possible_words,
                                       valid_guesses)},
          possible_list \in Orderings(possible_words),
          valid_list \in Orderings(valid_guesses) :
          \E r \in {WordleBot_choose_optimal_guess(scores, possible_list,
                                                   valid_list, TRUE)} :
              /\ guess' = r.guess
              /\ candidates' = r.candidates
              /\ scored' = r.scored
              /\ spinner_active' = IF r.started THEN FALSE ELSE spinner_active
              /\ spinner_thread' = IF r.started THEN "Thread"
                                   ELSE spinner_thread
              /\ pc' = IF r.raised THEN "IndexError" ELSE "chosen"
    /\ UNCHANGED <<target, possible_words, game_helper_target, feedback,
                   fn_vars, la_words, ta_words, mode, valid_guesses, guesses,
                   previous_guesses, game, reported, typed_line, result,
                   outcome>>
    /\ UNCHANGED <<thread_vars, file_vars>>

NextChoose == ChooseOptimalGuess

SpecChoose == InitChoose /\ [][NextChoose]_vars

\* ------------------------------------------------ _choose_optimal_guess twice
\* A bot asked twice for a guess on the same two sets: guesses collects what
\* the runs returned.
InitTwice ==
    /\ pc = "start"
    /\ mode = "twice"
    /\ possible_words \in (SUBSET ChooseWords) \ {{}}
    /\ valid_guesses \in SUBSET ChooseWords
    /\ game_helper_target \in HelperTargets
    /\ la_words = ChooseWords
    /\ ta_words = {}
    /\ spinner_active = FALSE
    /\ spinner_thread = None
    /\ guess = NoGuess
    /\ target = NoTarget
    /\ feedback = <<>>
    /\ wordle_feedback = <<>>
    /\ filtered = {}
    /\ expected = NoScore
    /\ entropy = NoScore
    /\ guesses = <<>>
    /\ previous_guesses = <<>>
    /\ game = NoGame
    /\ candidates = <<>>
    /\ scored = 0
    /\ reported = 0
    /\ typed_line = <<>>
    /\ result = 0
    /\ outcome = "none"
    /\ ThreadsIdle

\* One run of self._choose_optimal_guess(possible_words, valid_guesses): the
\* sets are the same at every run, their iteration orders are drawn anew.
ChooseOnceMore ==
    /\ mode = "twice"
    /\ pc \in {"start", "chosen"}
    /\ Len(guesses) < 2
    /\ \E scores \in {candidate_scores(game_helper_target, possible_words,
                                       valid_guesses)},
          possible_list \in Orderings(possible_words),
          valid_list \in Orderings(valid_guesses) :
          \E r \in {WordleBot_choose_optimal_guess(scores, possible_list,
                                                   valid_list, TRUE)} :
              /\ guess' = r.guess
              /\ scored' = r.scored
              /\ spinner_active' = IF r.started THEN FALSE ELSE spinner_active
              /\ spinner_thread' = IF r.started THEN "Thread"
                                   ELSE spinner_thread
              /\ IF r.raised
                 THEN pc' = "IndexError" /\ UNCHANGED guesses
                 ELSE pc' = "chosen" /\ guesses' = Append(guesses, r.guess)
    /\ UNCHANGED <<target, possible_words, game_helper_target, feedback,
                   fn_vars, la_words, ta_words, mode, valid_guesses,
                   previous_guesses, game, candidates, reported, typed_line,
                   result, outcome>>
    /\ UNCHANGED <<thread_vars, file_vars>>

NextTwice == ChooseOnceMore

SpecTwice == InitTwice /\ [][NextTwice]_vars

\* The letters str.upper() maps, and what it maps them to.
LowerCase ==
    <<"a", "b", "c", "d", "e", "f", "g", "h", "i", "j", "k", "l", "m",
      "n", "o", "p", "q", "r", "s", "t", "u", "v", "w", "x", "y", "z">>

UpperCase ==
    <<"A", "B", "C", "D", "E", "F", "G", "H", "I", "J", "K", "L", "M",
      "N", "O", "P", "Q", "R", "S", "T", "U", "V", "W", "X", "Y", "Z">>

\* c.upper() of one character
Upper(c) ==
    IF \E k \in 1..26 : LowerCase[k] = c
    THEN UpperCase[CHOOSE k \in 1..26 : LowerCase[k] = c]
    ELSE c

\* s.upper()
UpperStr(str) == [k \in 1..Len(str) |-> Upper(str[k])]

\* s.strip(): the blanks at both ends are dropped.
RECURSIVE Strip(_)
Strip(str) ==
    IF str = <<>> THEN str
    ELSE IF Head(str) = " " THEN Strip(Tail(str))
    ELSE IF str[Len(str)] = " " THEN Strip(SubSeq(str, 1, Len(str) - 1))
    ELSE str

\* ======================================================= game/wordle_game.py
\* self.max_attempts = 6
MaxAttempts == 6

\* str.isalpha() on the words of the lists: every character is a letter.
Letters ==
    {"A", "B", "C", "D", "E", "F", "G", "H", "I", "J", "K", "L", "M",
     "N", "O", "P", "Q", "R", "S", "T", "U", "V", "W", "X", "Y", "Z"}

\* An empty dict.
EmptyDict == [k \in {} |-> k]

\* d[k] = v
Put(dict, k, v) ==
    [x \in (DOMAIN dict) \cup {k} |-> IF x = k THEN v ELSE dict[x]]

\* WordleGame(hard_mode=...) once constructed; the target is held apart.
NewGame(all_words, hard_mode) ==
    [valid_guesses |-> all_words,
     attempts |-> 0,
     max_attempts |-> MaxAttempts,
     guessed_letters |-> EmptyDict,
     all_guesses |-> <<>>,
     won |-> FALSE,
     hard_mode |-> hard_mode,
     required_green_positions |-> EmptyDict,
     required_yellow_letters |-> {},
     yellow_positions |-> EmptyDict]

\* WordleGame._is_valid_hard_mode(guess)
WordleGame_is_valid_hard_mode(self, word) ==
    /\ \A position \in DOMAIN self.required_green_positions :
          word[position] = self.required_green_positions[position]
    /\ \A required_letter \in self.required_yellow_letters :
          /\ In(required_letter, word)
          /\ required_letter \in DOMAIN self.yellow_positions =>
                \A position \in self.yellow_positions[required_letter] :
                    word[position] # required_letter

\* WordleGame.is_valid_guess(guess)
WordleGame_is_valid_guess(self, word) ==
    /\ Len(word) = 5
    /\ \A k \in 1..Len(word) : word[k] \in Letters
    /\ word \in self.valid_guesses
    /\ self.hard_mode => WordleGame_is_valid_hard_mode(self, word)

\* WordleGame._update_keyboard_state(feedback): entry i of the feedback list
\* is taken as position i of the guess.
RECURSIVE WordleGame_update_keyboard_state(_, _, _)
WordleGame_update_keyboard_state(i, self, fb) ==
    IF i > Len(fb) THEN self
    ELSE LET letter == fb[i][1]
             color == fb[i][2]
             keyed ==
                 IF letter \notin DOMAIN self.guessed_letters \/ color = GREEN
                 THEN [self EXCEPT !.guessed_letters = Put(@, letter, color)]
                 ELSE self
             required ==
                 IF ~self.hard_mode THEN keyed
                 ELSE IF color = GREEN
                 THEN [keyed EXCEPT
                          !.required_green_positions = Put(@, i, letter)]
                 ELSE IF color = YELLOW
                 THEN [keyed EXCEPT
                          !.required_yellow_letters = @ \cup {letter},
                          !.yellow_positions =
                              Put(@, letter,
                                  (IF letter \in DOMAIN @ THEN @[letter]
                                   ELSE {}) \cup {i})]
                 ELSE keyed
         IN  WordleGame_update_keyboard_state(i + 1, required, fb)

\* Mutant of make_guess: a guess that is turned down still uses up an attempt.
WordleGame_make_guess_counts_rejected(self, self_target, word) ==
    LET stripped == UpperStr(Strip(word))
    IN  IF ~WordleGame_is_valid_guess(self, stripped)
        THEN [accepted |-> FALSE, game |-> [self EXCEPT !.attempts = @ + 1]]
        ELSE LET fb == WordleGame_get_feedback(self_target, stripped)
                 appended == [self EXCEPT !.all_guesses = Append(@, fb)]
                 keyed == WordleGame_update_keyboard_state(1, appended, fb)
             IN  [accepted |-> TRUE,
                  game |-> [keyed EXCEPT
                               !.won = IF stripped = self_target THEN TRUE
                                       ELSE @,
                               !.attempts = @ + 1]]

\* WordleGame.make_guess(guess) of a game on self_target: whether the guess
\* was accepted, and the game afterwards.
WordleGame_make_guess(self, self_target, word) ==
    LET stripped == UpperStr(Strip(word))
    IN  IF ~WordleGame_is_valid_guess(self, stripped)
        THEN [accepted |-> FALSE, game |-> self]
        ELSE LET fb == WordleGame_get_feedback(self_target, stripped)
                 appended == [self EXCEPT !.all_guesses = Append(@, fb)]
                 keyed == WordleGame_update_keyboard_state(1, appended, fb)
             IN  [accepted |-> TRUE,
                  game |-> [keyed EXCEPT
                               !.won = IF stripped = self_target THEN TRUE
                                       ELSE @,
                               !.attempts = @ + 1]]

\* Mutant of is_game_over: only a win ends the game.
WordleGame_is_game_over_when_won(self) ==
    self.won

\* WordleGame.is_game_over()
WordleGame_is_game_over(self) ==
    self.won \/ self.attempts >= self.max_attempts

\* ========================================================= the solving loops
\* Most guesses one interactive run is followed for.
MaxGuesses == 4
\* Most entries of a replayed history.
MaxReplay == 2
\* Most malformed lines typed at the prompts of one run.
MaxInvalid == 2

PEANO == <<"P", "E", "A", "N", "O">>

\* Lines of a word list on which a guess from outside the answers is scored
\* as telling the three answers apart while its feedback filters none away.
CACBC == <<"C", "A", "C", "B", "C">>
CBCCA == <<"C", "B", "C", "C", "A">>
CCCAB == <<"C", "C", "C", "A", "B">>
AABBA == <<"A", "A", "B", "B", "A">>

\* The word lists the bot is built on: la_words (answers), ta_words (others).
Vocabularies ==
    {[la |-> {CRANE, SLATE, CRUSH}, ta |-> {}],
     [la |-> {BATCH, CATCH, MATCH}, ta |-> {CHAMP}],
     [la |-> {PEANO, CRANE, SLATE}, ta |-> {ROATE}]}

\* The word lists of the loops that are handed a target: those, and one on
\* which rounds follow each other without a candidate being dropped.
TargetVocabularies ==
    Vocabularies \cup {[la |-> {CACBC, CBCCA, CCCAB}, ta |-> {AABBA}]}

Modes ==
    {"solve", "play_game", "solve_with_game", "solve_from_state",
     "solve_interactive"}

\* The loops handed a target word, and those told the feedback by a person.
TargetModes == {"solve", "play_game", "solve_with_game"}
TypedModes == {"solve_from_state", "solve_interactive"}

\* all(c in "GYX" for c in s)
AllGYX(str) == \A k \in 1..Len(str) : str[k] \in {"G", "Y", "X"}

\* all(c == Color.GREEN for _, c in feedback)
AllGreen(fb) == \A k \in 1..Len(fb) : fb[k][2] = GREEN

\* The codes of the replayed entries and some of the lines typed at a prompt.
XYGXY == <<"X", "Y", "G", "X", "Y">>
GGGXX == <<"G", "G", "G", "X", "X">>
GGGGG == <<"G", "G", "G", "G", "G">>
LowerCode == <<"x", "y", "g", "x", "y">>
ShortCode == <<"G", "G", "G", "X">>
LongCode == <<"G", "G", "G", "X", "X", "X">>
OtherLetterCode == <<"G", "G", "Z", "X", "X">>
PaddedCode == <<" ", "X", "Y", "G", "X", "Y", " ">>

\* The (guess, feedback_str) tuples a replayed history is made of.
ReplayEntries ==
    {<<ROATE, XYGXY>>, <<CRANE, GGGXX>>, <<SLATE, GGGGG>>,
     <<ROATE, LowerCode>>, <<CRANE, ShortCode>>, <<CRANE, OtherLetterCode>>,
     <<ROATE, PaddedCode>>}

\* The histories passed to solve_from_state.
Histories == UNION {[1..n -> ReplayEntries] : n \in 0..MaxReplay}

\* The lines typed at the prompt for a guess.
TypedLines(word) ==
    FeedbackCodes(word)
        \cup {LowerCode, ShortCode, LongCode, OtherLetterCode, PaddedCode,
              <<>>}

\* game.all_guesses[-1]
Last(list) == list[Len(list)]

\* Mutant of the first line of the loops: the candidates start as all_words.
initial_possible_words_all_words(self_la_words, self_ta_words) ==
    self_la_words \cup self_ta_words

\* possible_words = set(self.la_words)
initial_possible_words(self_la_words, self_ta_words) ==
    self_la_words

\* One of the five loops is entered on a bot just built.
InitSolve ==
    /\ mode \in Modes
    /\ \E vocabulary \in IF mode \in TargetModes THEN TargetVocabularies
                         ELSE Vocabularies :
          /\ la_words = vocabulary.la
          /\ ta_words = vocabulary.ta
    /\ game_helper_target \in HelperTargets
    /\ target \in IF mode \in TargetModes THEN la_words \cup ta_words
                  ELSE {NoTarget}
    /\ possible_words = initial_possible_words(la_words, ta_words)
    /\ valid_guesses = la_words \cup ta_words
    /\ guesses = <<>>
    /\ previous_guesses \in IF mode = "solve_from_state" THEN Histories
                            ELSE {<<>>}
    /\ game \in IF mode = "play_game"
                THEN {NewGame(la_words \cup ta_words, FALSE)}
                ELSE IF mode = "solve_with_game"
                THEN {NewGame(la_words \cup ta_words, hard_mode) :
                         hard_mode \in BOOLEAN}
                ELSE {NoGame}
    /\ pc = IF mode = "solve_from_state" THEN "replay" ELSE "round"
    /\ spinner_active = FALSE
    /\ spinner_thread = None
    /\ guess = NoGuess
    /\ feedback = <<>>
    /\ wordle_feedback = <<>>
    /\ filtered = {}
    /\ expected = NoScore
    /\ entropy = NoScore
    /\ candidates = <<>>
    /\ scored = 0
    /\ reported = 0
    /\ typed_line = <<>>
    /\ result = 0
    /\ outcome = "none"
    /\ ThreadsIdle

\* return value, from the place named
Return(value, place) ==
    /\ pc' = "returned"
    /\ result' = value
    /\ outcome' = place

\* The loop goes round again.
Continue ==
    /\ pc' = "round"
    /\ UNCHANGED <<result, outcome>>

\* candidates[0] of an empty list raised IndexError.
Raise ==
    /\ pc' = "IndexError"
    /\ UNCHANGED <<result, outcome>>

\* What a call of _choose_optimal_guess with result r leaves behind.
Chose(r) ==
    /\ guess' = r.guess
    /\ candidates' = r.candidates
    /\ scored' = r.scored
    /\ spinner_active' = IF r.started THEN FALSE ELSE spinner_active
    /\ spinner_thread' = IF r.started THEN "Thread" ELSE spinner_thread

\* The results _choose_optimal_guess can give on the present sets.
Choices ==
    UNION {{WordleBot_choose_optimal_guess(scores, possible_list, valid_list,
                                           TRUE) :
               possible_list \in Orderings(possible_words),
               valid_list \in Orderings(valid_guesses)} :
           scores \in {candidate_scores(game_helper_target, possible_words,
                                        valid_guesses)}}

\* Mutant of the turn: an empty filtered set does not end the loop.
SolveRound_goes_on_when_empty ==
    /\ mode = "solve"
    /\ pc = "round"
    /\ Len(guesses) < MaxGuesses
    /\ \E r \in Choices :
          /\ Chose(r)
          /\ IF r.raised
             THEN Raise /\ UNCHANGED <<guesses, feedback, possible_words>>
             ELSE /\ guesses' = Append(guesses, r.guess)
                  /\ feedback' = WordleBot_get_feedback(game_helper_target,
                                     r.guess, target).feedback
                  /\ IF r.guess = target
                     THEN /\ Return(Len(guesses'), "solved")
                          /\ UNCHANGED possible_words
                     ELSE /\ possible_words' = WordleBot_filter_words(
                                 possible_words, r.guess, feedback')
                          /\ Continue
    /\ UNCHANGED <<target, game_helper_target, fn_vars, la_words, ta_words,
                   mode, valid_guesses, previous_guesses, game, reported,
                   typed_line>>
    /\ UNCHANGED <<thread_vars, file_vars>>

\* WordleBot.solve(target): one turn of the while loop.
SolveRound ==
    /\ mode = "solve"
    /\ pc = "round"
    /\ Len(guesses) < MaxGuesses
    /\ \E r \in Choices :
          /\ Chose(r)
          /\ IF r.raised
             THEN Raise /\ UNCHANGED <<guesses, feedback, possible_words>>
             ELSE /\ guesses' = Append(guesses, r.guess)
                  /\ feedback' = WordleBot_get_feedback(game_helper_target,
                                     r.guess, target).feedback
                  /\ IF r.guess = target
                     THEN /\ Return(Len(guesses'), "solved")
                          /\ UNCHANGED possible_words
                     ELSE /\ possible_words' = WordleBot_filter_words(
                                 possible_words, r.guess, feedback')
                          /\ IF possible_words' = {}
                             THEN Return(Len(guesses'), "exhausted")
                             ELSE Continue
    /\ UNCHANGED <<target, game_helper_target, fn_vars, la_words, ta_words,
                   mode, valid_guesses, previous_guesses, game, reported,
                   typed_line>>
    /\ UNCHANGED <<thread_vars, file_vars>>

\* WordleBot.play_game(target): the loop test and one turn of the loop.
PlayGameRound ==
    /\ mode = "play_game"
    /\ pc = "round"
    /\ IF WordleGame_is_game_over(game)
       THEN /\ Return(<<game.attempts, game.won>>, "game_over")
            /\ UNCHANGED <<guess, candidates, scored, spinner_active,
                           spinner_thread, game, feedback, possible_words>>
       ELSE \E r \in Choices :
          /\ Chose(r)
          /\ IF r.raised
             THEN Raise /\ UNCHANGED <<game, feedback, possible_words>>
             ELSE \E made \in {WordleGame_make_guess(game, target, r.guess)} :
                  /\ game' = made.game
                  /\ IF ~made.accepted
                     THEN /\ Return(<<game'.attempts, game'.won>>, "rejected")
                          /\ UNCHANGED <<feedback, possible_words>>
                     ELSE /\ feedback' = Last(game'.all_guesses)
                          /\ IF game'.won
                             THEN /\ Return(<<game'.attempts, TRUE>>, "solved")
                                  /\ UNCHANGED possible_words
                             ELSE /\ possible_words' = WordleBot_filter_words(
                                         possible_words, r.guess, feedback')
                                  /\ IF possible_words' = {}
                                     THEN Return(<<game'.attempts, game'.won>>,
                                                 "exhausted")
                                     ELSE Continue
    /\ UNCHANGED <<target, game_helper_target, fn_vars, la_words, ta_words,
                   mode, valid_guesses, guesses, previous_guesses, reported,
                   typed_line>>
    /\ UNCHANGED <<thread_vars, file_vars>>

\* WordleBot.solve_with_game(game): the loop test and one turn of the loop.
SolveWithGameRound ==
    /\ mode = "solve_with_game"
    /\ pc = "round"
    /\ IF WordleGame_is_game_over(game)
       THEN /\ Return(Len(guesses), "game_over")
            /\ UNCHANGED <<guess, candidates, scored, spinner_active,
                           spinner_thread, game, feedback, possible_words,
                           guesses>>
       ELSE \E r \in Choices :
          /\ Chose(r)
          /\ IF r.raised
             THEN Raise /\ UNCHANGED <<game, feedback, possible_words, guesses>>
             ELSE \E made \in {WordleGame_make_guess(game, target, r.guess)} :
                  /\ guesses' = Append(guesses, r.guess)
                  /\ game' = made.game
                  /\ IF ~made.accepted
                     THEN /\ Return(Len(guesses'), "rejected")
                          /\ UNCHANGED <<feedback, possible_words>>
                     ELSE /\ feedback' = Last(game'.all_guesses)
                          /\ IF game'.won
                             THEN /\ Return(Len(guesses'), "solved")
                                  /\ UNCHANGED possible_words
                             ELSE /\ possible_words' = WordleBot_filter_words(
                                         possible_words, r.guess, feedback')
                                  /\ IF possible_words' = {}
                                     THEN Return(Len(guesses'), "exhausted")
                                     ELSE Continue
    /\ UNCHANGED <<target, game_helper_target, fn_vars, la_words, ta_words,
                   mode, valid_guesses, previous_guesses, reported,
                   typed_line>>
    /\ UNCHANGED <<thread_vars, file_vars>>

\* Mutant of the test: the length alone is looked at.
replay_code_is_invalid_length_only(feedback_str) ==
    Len(feedback_str) # 5

\* solve_from_state: the test of one replayed feedback string.
replay_code_is_invalid(feedback_str) ==
    Len(feedback_str) # 5 \/ ~AllGYX(UpperStr(feedback_str))

\* Mutant of the turn: the candidates are not filtered.
ReplayEntry_without_filter ==
    /\ mode = "solve_from_state"
    /\ pc = "replay"
    /\ previous_guesses # <<>>
    /\ previous_guesses' = Tail(previous_guesses)
    /\ LET replayed == UpperStr(Head(previous_guesses)[1])
           feedback_str == Head(previous_guesses)[2]
       IN  IF replay_code_is_invalid(feedback_str)
           THEN /\ reported' = reported + 1
                /\ UNCHANGED <<guess, guesses, feedback, possible_words, pc,
                               result, outcome>>
           ELSE /\ guess' = replayed
                /\ guesses' = Append(guesses, replayed)
                /\ feedback' = code_to_feedback(replayed,
                                                UpperStr(feedback_str))
                /\ UNCHANGED <<reported, possible_words>>
                /\ IF AllGreen(feedback')
                   THEN Return(Len(guesses'), "solved")
                   ELSE UNCHANGED <<pc, result, outcome>>
    /\ UNCHANGED <<target, game_helper_target, fn_vars, bot_vars, mode,
                   valid_guesses, game, candidates, scored, typed_line>>
    /\ UNCHANGED <<thread_vars, file_vars>>

\* solve_from_state(previous_guesses): one turn of the for loop.
ReplayEntry ==
    /\ mode = "solve_from_state"
    /\ pc = "replay"
    /\ previous_guesses # <<>>
    /\ previous_guesses' = Tail(previous_guesses)
    /\ LET replayed == UpperStr(Head(previous_guesses)[1])
           feedback_str == Head(previous_guesses)[2]
       IN  IF replay_code_is_invalid(feedback_str)
           THEN /\ reported' = reported + 1
                /\ UNCHANGED <<guess, guesses, feedback, possible_words, pc,
                               result, outcome>>
           ELSE /\ guess' = replayed
                /\ guesses' = Append(guesses, replayed)
                /\ feedback' = code_to_feedback(replayed,
                                                UpperStr(feedback_str))
                /\ UNCHANGED reported
                /\ IF AllGreen(feedback')
                   THEN /\ Return(Len(guesses'), "solved")
                        /\ UNCHANGED possible_words
                   ELSE /\ possible_words' = WordleBot_filter_words(
                               possible_words, replayed, feedback')
                        /\ IF possible_words' = {}
                           THEN Return(Len(guesses'), "exhausted")
                           ELSE UNCHANGED <<pc, result, outcome>>
    /\ UNCHANGED <<target, game_helper_target, fn_vars, bot_vars, mode,
                   valid_guesses, game, candidates, scored, typed_line>>
    /\ UNCHANGED <<thread_vars, file_vars>>

\* solve_from_state: the history is replayed, the while loop is entered.
ReplayDone ==
    /\ mode = "solve_from_state"
    /\ pc = "replay"
    /\ previous_guesses = <<>>
    /\ pc' = "round"
    /\ UNCHANGED <<guess, target, possible_words, game_helper_target,
                   feedback, fn_vars, solver_vars>>
    /\ UNCHANGED <<thread_vars, file_vars>>

\* solve_interactive and the while loop of solve_from_state: the guess is
\* chosen, counted and shown.
InteractiveChoose ==
    /\ mode \in TypedModes
    /\ pc = "round"
    /\ Len(guesses) < MaxGuesses
    /\ \E r \in Choices :
          /\ Chose(r)
          /\ IF r.raised
             THEN Raise /\ UNCHANGED guesses
             ELSE /\ guesses' = Append(guesses, r.guess)
                  /\ pc' = "prompt"
                  /\ UNCHANGED <<result, outcome>>
    /\ UNCHANGED <<target, possible_words, game_helper_target, feedback,
                   fn_vars, la_words, ta_words, mode, valid_guesses,
                   previous_guesses, game, reported, typed_line>>
    /\ UNCHANGED <<thread_vars, file_vars>>

\* The prompt's test of the line typed, stripped and upper-cased.
typed_code_is_valid(feedback_input) ==
    Len(feedback_input) = 5 /\ AllGYX(feedback_input)

\* The same loops: one line is typed at the prompt "Feedback (G/Y/X): ".
InteractiveFeedback ==
    /\ mode \in TypedModes
    /\ pc = "prompt"
    /\ \E line \in TypedLines(guess) :
          LET feedback_input == UpperStr(Strip(line))
          IN  /\ typed_line' = line
              /\ IF ~typed_code_is_valid(feedback_input)
                  THEN /\ reported < MaxInvalid
                       /\ reported' = reported + 1
                       /\ UNCHANGED <<feedback, possible_words, pc, result,
                                      outcome>>
                  ELSE /\ feedback' = code_to_feedback(guess, feedback_input)
                       /\ UNCHANGED reported
                       /\ IF AllGreen(feedback')
                          THEN /\ Return(Len(guesses), "solved")
                               /\ UNCHANGED possible_words
                          ELSE /\ possible_words' = WordleBot_filter_words(
                                      possible_words, guess, feedback')
                               /\ IF possible_words' = {}
                                  THEN Return(Len(guesses), "exhausted")
                                  ELSE Continue
    /\ UNCHANGED <<guess, target, game_helper_target, fn_vars, bot_vars, mode,
                   valid_guesses, guesses, previous_guesses, game, candidates,
                   scored>>
    /\ UNCHANGED <<thread_vars, file_vars>>

NextSolve ==
    \/ SolveRound
    \/ PlayGameRound
    \/ SolveWithGameRound
    \/ ReplayEntry
    \/ ReplayDone
    \/ InteractiveChoose
    \/ InteractiveFeedback

SpecSolve == InitSolve /\ [][NextSolve]_vars

\* ============================================================ a game played
\* Most accepted guesses a game is followed for: one past max_attempts and
\* beyond, so that calls after the last attempt are made.
MaxMoves == 7

AEGIS == <<"A", "E", "G", "I", "S">>

\* The lists the game is built on: wordle-La.txt and wordle-Ta.txt.
GameLaWords == {CRANE, SLATE}
GameTaWords == {AEGIS}

\* The strings make_guess is called with: the words of the lists, one of them
\* in lower case between blanks, a word of no list, a short word, a word
\* with a digit and the empty string.
GameInputs ==
    GameLaWords \cup GameTaWords
        \cup {<<" ", "s", "l", "a", "t", "e", " ">>,
              ROATE,
              <<"C", "R", "A", "N">>,
              <<"C", "R", "4", "N", "E">>,
              <<>>}

\* game = WordleGame(hard_mode=...): the target is drawn from the answer list.
InitGame ==
    /\ pc = "play"
    /\ mode = "game"
    /\ la_words = GameLaWords
    /\ ta_words = GameTaWords
    /\ target \in la_words
    /\ \E hard_mode \in BOOLEAN :
          game = NewGame(la_words \cup ta_words, hard_mode)
    /\ valid_guesses = la_words \cup ta_words
    /\ guess = <<>>
    /\ guesses = <<>>
    /\ typed_line = <<>>
    /\ outcome = "none"
    /\ possible_words = {}
    /\ game_helper_target = target
    /\ feedback = <<>>
    /\ wordle_feedback = <<>>
    /\ filtered = {}
    /\ expected = NoScore
    /\ entropy = NoScore
    /\ spinner_active = FALSE
    /\ spinner_thread = None
    /\ previous_guesses = <<>>
    /\ candidates = <<>>
    /\ scored = 0
    /\ reported = 0
    /\ result = 0
    /\ ThreadsIdle

\* game.make_guess(typed_line), whatever the state of the game: typed_line is
\* the string passed, guess what strip().upper() makes of it, outcome the
\* value returned and guesses the words accepted so far.
MakeGuess ==
    /\ pc = "play"
    /\ game.attempts < MaxMoves
    /\ \E line \in GameInputs :
          \E r \in {WordleGame_make_guess(game, target, line)} :
              /\ typed_line' = line
              /\ guess' = UpperStr(Strip(line))
              /\ game' = r.game
              /\ outcome' = IF r.accepted THEN "accepted" ELSE "rejected"
              /\ guesses' = IF r.accepted THEN Append(guesses, guess')
                            ELSE guesses
    /\ UNCHANGED <<target, possible_words, game_helper_target, feedback,
                   fn_vars, bot_vars, mode, valid_guesses, previous_guesses,
                   candidates, scored, reported, result, pc>>
    /\ UNCHANGED <<thread_vars, file_vars>>

NextGame == MakeGuess

SpecGame == InitGame /\ [][NextGame]_vars

\* ================================= _choose_optimal_guess and its spinner thread
\* Most frames the spinner thread is followed for.
MaxFrames == 2

\* The sets the call is followed on: up to three candidates, two other words.
SpinnerPossible == {BATCH, CATCH, MATCH}
SpinnerValid == {CHAMP, CRUSH}

\* The call about to be made: show_spinner as passed, and the orders in which
\* this run iterates possible_words and valid_guesses.
InitSpinner ==
    /\ pc = "start"
    /\ mode = "spinner"
    /\ possible_words \in (SUBSET SpinnerPossible) \ {{}}
    /\ valid_guesses = SpinnerValid
    /\ \E show_spinner \in BOOLEAN,
          possible_list \in Orderings(possible_words),
          valid_list \in Orderings(valid_guesses) :
          frame = [show_spinner |-> show_spinner,
                   possible_list |-> possible_list,
                   valid_list |-> valid_list,
                   j |-> 1,
                   original_target |-> None,
                   feedback_counts |-> EmptyDict,
                   best_guess |-> NoGuess,
                   best_score |-> Infinity]
    /\ spinner = NoSpinner
    /\ threads = <<>>
    /\ la_file = FileRead
    /\ ta_file = FileRead
    /\ game_helper_target \in HelperTargets
    /\ la_words = SpinnerPossible
    /\ ta_words = SpinnerValid
    /\ spinner_active = FALSE
    /\ spinner_thread = None
    /\ guess = NoGuess
    /\ target = NoTarget
    /\ feedback = <<>>
    /\ wordle_feedback = <<>>
    /\ filtered = {}
    /\ expected = NoScore
    /\ entropy = NoScore
    /\ guesses = <<>>
    /\ previous_guesses = <<>>
    /\ game = NoGame
    /\ candidates = <<>>
    /\ scored = 0
    /\ reported = 0
    /\ typed_line = <<>>
    /\ result = 0
    /\ outcome = "none"

\* What the steps of the main thread leave alone.
call_frame_vars ==
    <<target, possible_words, feedback, fn_vars, la_words, ta_words, mode,
      valid_guesses, guesses, previous_guesses, game, reported, typed_line,
      result, outcome, threads, file_vars>>

\* Lines 181-201: the early return for one candidate, else the thread is
\* started when show_spinner is set and the candidates list is built.
StartCall ==
    /\ mode = "spinner"
    /\ pc = "start"
    /\ IF Len(frame.possible_list) = 1
       THEN /\ guess' = frame.possible_list[1]
            /\ pc' = "chosen"
            /\ UNCHANGED <<candidates, spinner_active, spinner_thread, spinner>>
       ELSE /\ candidates' = candidate_pool(frame.possible_list,
                                            frame.valid_list)
            /\ spinner_active' = (frame.show_spinner \/ spinner_active)
            /\ spinner_thread' = IF frame.show_spinner THEN "Thread"
                                 ELSE spinner_thread
            /\ spinner' = IF frame.show_spinner THEN [pc |-> "test", i |-> 0]
                          ELSE spinner
            /\ pc' = "overwrite"
            /\ UNCHANGED guess
    /\ UNCHANGED <<frame, scored, game_helper_target>>
    /\ UNCHANGED call_frame_vars

\* _get_feedback, lines 62-63, for the candidate being scored and the next
\* target: the helper's target is saved and overwritten.
OverwriteTarget ==
    /\ mode = "spinner"
    /\ pc = "overwrite"
    /\ frame' = [frame EXCEPT !.original_target = game_helper_target]
    /\ game_helper_target' = frame.possible_list[frame.j]
    /\ pc' = "ask"
    /\ UNCHANGED <<guess, candidates, scored, spinner_active, spinner_thread,
                   spinner>>
    /\ UNCHANGED call_frame_vars

\* The score of the candidate whose feedback_counts are complete, bonus added.
score_from_counts(counts, candidate, possible) ==
    LET expected_remaining ==
            Rational(SumOver([k \in DOMAIN counts |-> counts[k] * counts[k]],
                             DOMAIN counts),
                     Cardinality(possible))
    IN  IF candidate \in possible THEN expected_remaining
        ELSE PlusHalf(expected_remaining)

\* _get_feedback, lines 64-65: the helper is asked with the target it holds
\* now and its target is put back; the pattern is counted (line 147).  After
\* the last target the candidate's score is made and compared (lines 149-217).
AskHelper ==
    /\ mode = "spinner"
    /\ pc = "ask"
    /\ game_helper_target' = frame.original_target
    /\ LET candidate == candidates[scored + 1]
           fb == WordleGame_get_feedback(game_helper_target, candidate)
           counts == Put(frame.feedback_counts, fb,
                         (IF fb \in DOMAIN frame.feedback_counts
                          THEN frame.feedback_counts[fb] ELSE 0) + 1)
       IN  IF frame.j < Len(frame.possible_list)
           THEN /\ frame' = [frame EXCEPT !.j = @ + 1,
                                          !.feedback_counts = counts]
                /\ pc' = "overwrite"
                /\ UNCHANGED scored
           ELSE \E score \in {score_from_counts(counts, candidate,
                                                possible_words)} :
                /\ frame' = [frame EXCEPT
                                !.j = 1,
                                !.feedback_counts = EmptyDict,
                                !.best_score =
                                    IF Less(score, @) THEN score ELSE @,
                                !.best_guess =
                                    IF Less(score, frame.best_score)
                                    THEN candidate ELSE @]
                /\ scored' = scored + 1
                /\ pc' = IF scored' = Len(candidates) THEN "finally"
                         ELSE "overwrite"
    /\ UNCHANGED <<guess, candidates, spinner_active, spinner_thread, spinner>>
    /\ UNCHANGED call_frame_vars

\* Lines 219-225: the value to return is fixed, the finally clause clears
\* _spinner_active and join(timeout=0.2) comes back, the thread finished or not.
FinishCall ==
    /\ mode = "spinner"
    /\ pc = "finally"
    /\ guess' = IF frame.best_guess # NoGuess THEN frame.best_guess
                ELSE candidates[1]
    /\ spinner_active' = (~frame.show_spinner /\ spinner_active)
    /\ pc' = "chosen"
    /\ UNCHANGED <<frame, candidates, scored, game_helper_target,
                   spinner_thread, spinner>>
    /\ UNCHANGED call_frame_vars

\* What the steps of the spinner thread leave alone.
spinner_frame_vars ==
    <<guess, pc, frame, candidates, scored, spinner_active, spinner_thread,
      game_helper_target>>

\* _show_spinner, line 161: while self._spinner_active
SpinnerTest ==
    /\ spinner.pc = "test"
    /\ spinner' = [spinner EXCEPT
                      !.pc = IF spinner_active THEN "print" ELSE "clear"]
    /\ UNCHANGED spinner_frame_vars
    /\ UNCHANGED call_frame_vars

\* Mutant of the loop body: the thread shows progress by asking the helper
\* game, and leaves its own target in it.
SpinnerPrint_asks_helper ==
    /\ spinner.pc = "print"
    /\ spinner.i < MaxFrames
    /\ spinner' = [pc |-> "test", i |-> spinner.i + 1]
    /\ game_helper_target' = ROATE
    /\ UNCHANGED <<guess, pc, frame, candidates, scored, spinner_active,
                   spinner_thread>>
    /\ UNCHANGED call_frame_vars

\* _show_spinner, lines 162-168: a frame is printed, the thread sleeps, i += 1
SpinnerPrint ==
    /\ spinner.pc = "print"
    /\ spinner.i < MaxFrames
    /\ spinner' = [pc |-> "test", i |-> spinner.i + 1]
    /\ UNCHANGED spinner_frame_vars
    /\ UNCHANGED call_frame_vars

\* _show_spinner, line 169: the line is cleared and the thread ends.
SpinnerClear ==
    /\ spinner.pc = "clear"
    /\ spinner' = [spinner EXCEPT !.pc = "done"]
    /\ UNCHANGED spinner_frame_vars
    /\ UNCHANGED call_frame_vars

NextSpinner ==
    \/ StartCall
    \/ OverwriteTarget
    \/ AskHelper
    \/ FinishCall
    \/ SpinnerTest
    \/ SpinnerPrint
    \/ SpinnerClear

SpecSpinner == InitSpinner /\ [][NextSpinner]_vars

\* ================== the spinner threads of several _choose_optimal_guess calls
\* Most calls of _choose_optimal_guess one run is followed for.
MaxCalls == 2

\* len(spinner_chars), line 159: a thread's i is only read as i % 4, and is
\* kept that way.
SpinnerChars == 4

\* The candidate sets a caller passes: one word left, or several.
LifecycleSets == {{BATCH}, SpinnerPossible}

\* The results _choose_optimal_guess can give on each of those sets, for each
\* target the helper game may hold and each pair of iteration orders.
LifecycleChoices ==
    UNION {UNION {{[possible |-> possible, helper_target |-> helper_target,
                    guess |-> r.guess, scored |-> r.scored] :
                      r \in {WordleBot_choose_optimal_guess(scores,
                                 possible_list, valid_list, TRUE) :
                                possible_list \in Orderings(possible),
                                valid_list \in Orderings(SpinnerValid)}} :
                  scores \in {candidate_scores(helper_target, possible,
                                               SpinnerValid)}} :
           possible \in LifecycleSets, helper_target \in HelperTargets}

\* A bot just built: no call made yet and no thread started.
InitLifecycle ==
    /\ pc = "idle"
    /\ mode = "lifecycle"
    /\ possible_words = SpinnerPossible
    /\ valid_guesses = SpinnerValid
    /\ game_helper_target \in HelperTargets
    /\ la_words = SpinnerPossible
    /\ ta_words = SpinnerValid
    /\ spinner_active = FALSE
    /\ spinner_thread = None
    /\ guess = NoGuess
    /\ target = NoTarget
    /\ feedback = <<>>
    /\ wordle_feedback = <<>>
    /\ filtered = {}
    /\ expected = NoScore
    /\ entropy = NoScore
    /\ guesses = <<>>
    /\ previous_guesses = <<>>
    /\ game = NoGame
    /\ candidates = <<>>
    /\ scored = 0
    /\ reported = 0
    /\ typed_line = <<>>
    /\ result = 0
    /\ outcome = "none"
    /\ ThreadsIdle

\* What no step of these calls and threads changes.
lifecycle_rest ==
    <<target, feedback, fn_vars, la_words, ta_words, mode, valid_guesses,
      previous_guesses, game, reported, typed_line, result,
      game_helper_target, spinner, file_vars>>

\* The caller calls _choose_optimal_guess(possible_words, valid_guesses,
\* show_spinner), lines 181-190: one candidate is returned at once, else with
\* show_spinner set the flag is raised and a new thread is made and started.
BeginCall ==
    /\ mode = "lifecycle"
    /\ pc \in {"idle", "returned"}
    /\ Len(guesses) < MaxCalls
    /\ \E show_spinner \in BOOLEAN, possible \in LifecycleSets :
          /\ possible_words' = possible
          /\ frame' = [show_spinner |-> show_spinner]
          /\ IF Cardinality(possible) = 1
             THEN /\ guess' = CHOOSE w \in possible : TRUE
                  /\ guesses' = Append(guesses, guess')
                  /\ pc' = "returned"
                  /\ UNCHANGED <<spinner_active, spinner_thread, threads>>
             ELSE /\ pc' = "scoring"
                  /\ UNCHANGED <<guess, guesses>>
                  /\ IF show_spinner
                     THEN /\ spinner_active' = TRUE
                          /\ threads' = Append(threads,
                                               [pc |-> "test", i |-> 0])
                          /\ spinner_thread' = Len(threads')
                     ELSE UNCHANGED <<spinner_active, spinner_thread, threads>>
    /\ UNCHANGED <<candidates, scored, outcome>>
    /\ UNCHANGED lifecycle_rest

\* Lines 192-219: the candidates are scored and the value to return is fixed.
ScoreCandidates ==
    /\ mode = "lifecycle"
    /\ pc = "scoring"
    /\ \E r \in LifecycleChoices :
          /\ r.possible = possible_words
          /\ r.helper_target = game_helper_target
          /\ guess' = r.guess
          /\ scored' = r.scored
    /\ pc' = "finally"
    /\ UNCHANGED <<possible_words, spinner_active, spinner_thread, guesses,
                   candidates, outcome, frame, threads>>
    /\ UNCHANGED lifecycle_rest

\* Lines 222-223 of the finally clause: the flag is lowered when this call had
\* raised it; without show_spinner the call returns.
LowerFlag ==
    /\ mode = "lifecycle"
    /\ pc = "finally"
    /\ IF frame.show_spinner
       THEN /\ spinner_active' = FALSE
            /\ pc' = "join"
            /\ UNCHANGED guesses
       ELSE /\ pc' = "returned"
            /\ guesses' = Append(guesses, guess)
            /\ UNCHANGED spinner_active
    /\ UNCHANGED <<guess, possible_words, spinner_thread, candidates, scored,
                   outcome, frame, threads>>
    /\ UNCHANGED lifecycle_rest

\* Lines 224-225: self._spinner_thread.join(timeout=0.2) comes back when the
\* newest thread has ended or when 0.2 s have passed, and the call returns.
JoinReturns ==
    /\ mode = "lifecycle"
    /\ pc = "join"
    /\ outcome' = IF threads[spinner_thread].pc = "done" THEN "joined"
                  ELSE "timeout"
    /\ guesses' = Append(guesses, guess)
    /\ pc' = "returned"
    /\ UNCHANGED <<guess, possible_words, spinner_active, spinner_thread,
                   candidates, scored, frame, threads>>
    /\ UNCHANGED lifecycle_rest

\* What a step of a spinner thread leaves alone.
main_thread_vars ==
    <<guess, possible_words, pc, spinner_active, spinner_thread, guesses,
      candidates, scored, outcome, frame>>

\* _show_spinner of thread k, line 161: while self._spinner_active
ThreadTest(k) ==
    /\ mode = "lifecycle"
    /\ k \in DOMAIN threads
    /\ threads[k].pc = "test"
    /\ threads' = [threads EXCEPT
                      ![k].pc = IF spinner_active THEN "print" ELSE "clear"]
    /\ UNCHANGED main_thread_vars
    /\ UNCHANGED lifecycle_rest

\* _show_spinner of thread k, lines 162-168: a frame is printed, the thread
\* sleeps 0.1 s, i += 1
ThreadPrint(k) ==
    /\ mode = "lifecycle"
    /\ k \in DOMAIN threads
    /\ threads[k].pc = "print"
    /\ threads' = [threads EXCEPT
                      ![k] = [pc |-> "test", i |-> (@.i + 1) % SpinnerChars]]
    /\ UNCHANGED main_thread_vars
    /\ UNCHANGED lifecycle_rest

\* _show_spinner of thread k, line 169: the line is cleared, the thread ends.
ThreadClear(k) ==
    /\ mode = "lifecycle"
    /\ k \in DOMAIN threads
    /\ threads[k].pc = "clear"
    /\ threads' = [threads EXCEPT ![k].pc = "done"]
    /\ UNCHANGED main_thread_vars
    /\ UNCHANGED lifecycle_rest

\* The steps of the finally clause, and those of thread k.
FinallyStep == LowerFlag \/ JoinReturns
ShowSpinner(k) == ThreadTest(k) \/ ThreadPrint(k) \/ ThreadClear(k)

NextLifecycle ==
    \/ BeginCall
    \/ ScoreCandidates
    \/ LowerFlag
    \/ JoinReturns
    \/ \E k \in 1..MaxCalls : ThreadTest(k)
    \/ \E k \in 1..MaxCalls : ThreadPrint(k)
    \/ \E k \in 1..MaxCalls : ThreadClear(k)

\* A call in progress goes on to its return: the scoring loop is bounded and
\* ends (ScoreCandidates is the one step enabled while pc = "scoring", so this
\* is weak fairness of it), and the finally clause is run.  Every started
\* thread is scheduled again and again (its sleep and its print come back).
\* Whether the caller calls again is left open.
FairLifecycle ==
    /\ []<>(pc # "scoring")
    /\ WF_vars(FinallyStep)
    /\ \A k \in 1..MaxCalls : WF_vars(ShowSpinner(k))

SpecLifecycle == InitLifecycle /\ [][NextLifecycle]_vars /\ FairLifecycle

\* ========================================================= WordleBot.__init__
\* A line of blanks, and lines as they stand in a file.
BlankLine == <<" ">>
crane_line == <<"c", "r", "a", "n", "e">>
roate_line == <<" ", "r", "o", "a", "t", "e", " ">>

\* What open(filename) can find: no file, a file that cannot be read, or a
\* file with these lines.
Files(contents) ==
    {[state |-> "missing"], [state |-> "unreadable"]}
        \cup {[state |-> "file", lines |-> lines] : lines \in contents}

LaFiles ==
    Files({<<>>, <<BlankLine>>, <<crane_line, SLATE, CRUSH>>,
           <<CRANE, BlankLine, SLATE>>, <<BATCH, CATCH, MATCH>>})

TaFiles ==
    Files({<<>>, <<BlankLine>>, <<roate_line>>, <<CHAMP, BlankLine>>})

\* [line.strip().upper() for line in f if line.strip()]
RECURSIVE stripped_lines(_)
stripped_lines(lines) ==
    IF lines = <<>> THEN <<>>
    ELSE IF Strip(Head(lines)) = <<>> THEN stripped_lines(Tail(lines))
    ELSE <<UpperStr(Strip(Head(lines)))>> \o stripped_lines(Tail(lines))

\* The words of a list.
words_of(list) == {list[k] : k \in 1..Len(list)}

\* _load_word_list(filename): the words, or the exception that leaves it.
\* FileNotFoundError is caught, reported and turned into sys.exit(1); any
\* other error of open() passes through.
WordleBot_load_word_list(file) ==
    IF file.state = "missing"
    THEN [raised |-> "SystemExit", printed |-> 1, words |-> <<>>]
    ELSE IF file.state = "unreadable"
    THEN [raised |-> "OSError", printed |-> 0, words |-> <<>>]
    ELSE [raised |-> "none", printed |-> 0,
          words |-> stripped_lines(file.lines)]

\* The program is started on the two files as they are.
InitBoot ==
    /\ pc = "start"
    /\ mode = "boot"
    /\ la_file \in LaFiles
    /\ ta_file \in TaFiles
    /\ la_words = {}
    /\ ta_words = {}
    /\ possible_words = {}
    /\ valid_guesses = {}
    /\ game_helper_target = None
    /\ spinner_active = FALSE
    /\ spinner_thread = None
    /\ frame = NoFrame
    /\ spinner = NoSpinner
    /\ threads = <<>>
    /\ guess = NoGuess
    /\ target = NoTarget
    /\ feedback = <<>>
    /\ wordle_feedback = <<>>
    /\ filtered = {}
    /\ expected = NoScore
    /\ entropy = NoScore
    /\ guesses = <<>>
    /\ previous_guesses = <<>>
    /\ game = NoGame
    /\ candidates = <<>>
    /\ scored = 0
    /\ reported = 0
    /\ typed_line = <<>>
    /\ result = 0
    /\ outcome = "none"

\* bot = WordleBot(): both lists are loaded (lines 35-36), the fields set
\* (37-40) and the helper game built (42), which loads the lists again and
\* draws its target with random.choice(la_words).
Construct ==
    /\ mode = "boot"
    /\ pc = "start"
    /\ \E la \in {WordleBot_load_word_list(la_file)},
          ta \in {WordleBot_load_word_list(ta_file)} :
          IF la.raised # "none"
          THEN /\ pc' = la.raised
               /\ reported' = reported + la.printed
               /\ UNCHANGED <<la_words, ta_words, possible_words,
                              game_helper_target>>
          ELSE IF ta.raised # "none"
          THEN /\ pc' = ta.raised
               /\ reported' = reported + ta.printed
               /\ la_words' = words_of(la.words)
               /\ UNCHANGED <<ta_words, possible_words, game_helper_target>>
          ELSE /\ la_words' = words_of(la.words)
               /\ ta_words' = words_of(ta.words)
               /\ possible_words' = words_of(la.words)
               /\ UNCHANGED reported
               /\ IF la.words = <<>>
                  THEN pc' = "IndexError" /\ UNCHANGED game_helper_target
                  ELSE /\ pc' = "constructed"
                       /\ game_helper_target' \in words_of(la.words)
    /\ UNCHANGED <<guess, target, feedback, fn_vars, spinner_active,
                   spinner_thread, mode, valid_guesses, guesses,
                   previous_guesses, game, candidates, scored, typed_line,
                   result, outcome, thread_vars,
                   file_vars>>

\* The first lines of solve() on the bot built: the sets are made of the
\* lists (245-246) and the first guess is chosen (251).
FirstChoice ==
    /\ mode = "boot"
    /\ pc = "constructed"
    /\ \E possible \in {la_words}, valid \in {la_words \cup ta_words} :
          \E scores \in {candidate_scores(game_helper_target, possible, valid)},
             possible_list \in Orderings(possible),
             valid_list \in Orderings(valid) :
             \E r \in {WordleBot_choose_optimal_guess(scores, possible_list,
                                                      valid_list, TRUE)} :
                 /\ Chose(r)
                 /\ possible_words' = possible
                 /\ valid_guesses' = valid
                 /\ pc' = IF r.raised THEN "IndexError" ELSE "chosen"
    /\ UNCHANGED <<target, game_helper_target, feedback, fn_vars, la_words,
                   ta_words, mode, guesses, previous_guesses, game, reported,
                   typed_line, result, outcome, thread_vars, file_vars>>

NextBoot ==
    \/ Construct
    \/ FirstChoice

SpecBoot == InitBoot /\ [][NextBoot]_vars

\* ============================================================== properties
\* Occurrences of letter L in word w.
Occ(L, w) == Cardinality({k \in 1..Len(w) : w[k] = L})

\* Entries of feedback fb that credit letter L as GREEN or YELLOW.
Credited(L, fb) ==
    Cardinality({k \in 1..Len(fb) : fb[k][1] = L /\ fb[k][2] \in {GREEN, YELLOW}})

\* The colors of a feedback, letters dropped.
ColorsOf(fb) == [k \in 1..Len(fb) |-> fb[k][2]]

\* The classification rule for position i of guess g against target t, in
\* closed form: Exact on equal letters; otherwise Present exactly when fewer
\* earlier non-exact positions of g hold the letter than t has copies of it
\* outside the exact matches.
PositionClass(g, t, i) ==
    IF g[i] = t[i] THEN GREEN
    ELSE IF Cardinality({j \in 1..(i - 1) : g[j] = g[i] /\ g[j] # t[j]})
              < Cardinality({k \in 1..Len(t) : t[k] = g[i] /\ g[k] # t[k]})
         THEN YELLOW
         ELSE GRAY

\* The per-position feedback of g against t under that rule.
PositionFeedback(g, t) ==
    [i \in 1..Len(g) |-> <<g[i], PositionClass(g, t, i)>>]

IsNotGreen(entry) == entry[2] # GREEN

\* The feedback computed for the current guess against the current target.
FeedbackComputed == pc = "feedback" /\ target # NoTarget

\* C1 (as claimed): the feedback has one pair per guess position, in position
\* order, and entry i is GREEN if and only if guess[i] = target[i].
C1_ExactIffSamePosition ==
    FeedbackComputed =>
        /\ Len(feedback) = Len(guess)
        /\ \A i \in 1..Len(guess) :
              /\ feedback[i][1] = guess[i]
              /\ (feedback[i][2] = GREEN) <=> (guess[i] = target[i])

\* C2: for every letter L, the entries of the feedback that credit L as GREEN
\* or YELLOW are never more than the occurrences of L in the target, in the
\* feedback of game/wordle_game.py and in that of game/wordle.py.
C2_CreditWithinTargetCount ==
    /\ FeedbackComputed =>
          \A k \in 1..Len(guess) :
              Credited(guess[k], feedback) <= Occ(guess[k], target)
    /\ pc = "wordle_feedback" =>
          \A k \in 1..Len(guess) :
              Credited(guess[k], wordle_feedback) <= Occ(guess[k], target)

\* C2 witness: a guess with more copies of a letter than the target has, all
\* of the target's copies credited.
C2_Witness ==
    /\ FeedbackComputed
    /\ \E k \in 1..Len(guess) :
          /\ Occ(guess[k], guess) > Occ(guess[k], target)
          /\ Occ(guess[k], target) > 0
          /\ Credited(guess[k], feedback) = Occ(guess[k], target)

\* C3: the entries that are not GREEN are the guess positions that are not
\* exact matches, in ascending position order, each YELLOW when its letter is
\* still left in the target after the exact matches and the earlier YELLOW
\* credits, GRAY otherwise; SPEED against ERASE gives Present, Absent,
\* Present, Present, Absent.
C3_PresentAbsentRule ==
    FeedbackComputed =>
        /\ SelectSeq(feedback, IsNotGreen)
             = SelectSeq(PositionFeedback(guess, target), IsNotGreen)
        /\ (guess = SPEED /\ target = ERASE) =>
              ColorsOf(feedback) = <<YELLOW, GRAY, YELLOW, YELLOW, GRAY>>

\* C3 witness: SPEED has been classified against ERASE.
C3_Witness ==
    /\ FeedbackComputed
    /\ guess = SPEED
    /\ target = ERASE
    /\ ColorsOf(feedback) = <<YELLOW, GRAY, YELLOW, YELLOW, GRAY>>

Filtered == pc = "filtered"

\* C5 (as claimed): the word the feedback was computed against is never
\* removed by that feedback: a target in the candidate set is in the result.
C5_TargetSurvivesOwnFeedback ==
    (Filtered /\ target # NoTarget /\ target \in possible_words) =>
        target \in filtered

\* C6 (as claimed): a word is kept if and only if the feedback of the guess
\* against it equals the observed feedback as a whole sequence.
C6_KeptIffSameFeedback ==
    Filtered =>
        \A w \in possible_words :
            w \in filtered <=>
                WordleBot_get_feedback(game_helper_target, guess, w).feedback
                    = feedback

\* C7: the result of the filter is a subset of the set passed in, and no
\* larger, for every set, guess and feedback, producible or not.
C7_FilteredIsSubset ==
    Filtered =>
        /\ filtered \subseteq possible_words
        /\ Cardinality(filtered) <= Cardinality(possible_words)

\* C7 witness: a typed feedback that no word of the vocabulary produces has
\* pruned the candidate set to a smaller, non-empty one.
C7_Witness ==
    /\ Filtered
    /\ target = NoTarget
    /\ filtered # {}
    /\ filtered # possible_words
    /\ \A w \in Vocab(Len(guess)) :
          WordleBot_get_feedback(game_helper_target, guess, w).feedback # feedback

\* C8: the call of the filter leaves the candidate set passed in, the guess
\* and the observed feedback as they were.
C8_FilterLeavesInputs ==
    [][(pc = "feedback" /\ pc' = "filtered") =>
          /\ possible_words' = possible_words
          /\ guess' = guess
          /\ feedback' = feedback]_vars

\* C8 witness: the filter has run on a computed feedback and dropped some of
\* the words, and the set passed in still holds them.
C8_Witness ==
    /\ Filtered
    /\ target # NoTarget
    /\ filtered # {}
    /\ filtered # possible_words

\* A score equal to the integer n.
ScoreIs(score, n) == score.den # 0 /\ score.num = n * score.den

\* C9: on the empty candidate set the expected-remaining score and the
\* entropy are 0; on a one-word set the expected-remaining score is 1.
C9_ScoresOfEmptyAndSingleton ==
    /\ (pc = "expected" /\ possible_words = {}) => ScoreIs(expected, 0)
    /\ (pc = "entropy" /\ possible_words = {}) => ScoreIs(entropy, 0)
    /\ (pc = "expected" /\ Cardinality(possible_words) = 1) =>
          ScoreIs(expected, 1)

\* C9 witness: a one-word set that does not hold the guess has been scored.
C9_Witness ==
    /\ pc = "expected"
    /\ Cardinality(possible_words) = 1
    /\ guess \notin possible_words
    /\ ScoreIs(expected, 1)

\* The sum of c * c over the buckets of the candidate set grouped by the
\* per-position feedback of the guess.
PositionBucketSquares(g, possible) ==
    LET keys == {PositionFeedback(g, t) : t \in possible}
        size == [k \in keys |->
                    Cardinality({t \in possible : PositionFeedback(g, t) = k})]
    IN  SumOver([k \in keys |-> size[k] * size[k]], keys)

\* C10 (as claimed): on a non-empty candidate set of n words the
\* expected-remaining score is the sum of c * c / n over the buckets of words
\* with identical per-position classification.
C10_ExpectedOverPositionBuckets ==
    (pc = "expected" /\ possible_words # {}) =>
        expected = Rational(PositionBucketSquares(guess, possible_words),
                            Cardinality(possible_words))

\* ------------------------------------------------ _choose_optimal_guess
\* The set of the entries of a list.
Range(list) == {list[k] : k \in 1..Len(list)}

Chosen == mode = "choose" /\ pc = "chosen"

\* C11: with exactly one candidate left _choose_optimal_guess returns that
\* word whatever the allowed guesses are, scores no candidate and does not
\* start the spinner.
C11_SingleCandidateReturnedUnscored ==
    (Chosen /\ Cardinality(possible_words) = 1) =>
        /\ possible_words = {guess}
        /\ scored = 0
        /\ spinner_thread = None

\* The one candidate came back although other words were allowed.
C11_Witness ==
    /\ Chosen
    /\ possible_words = {MATCH}
    /\ guess = MATCH
    /\ valid_guesses = {CHAMP, CRUSH}

\* C12: with at most two candidates left the pool is the candidate set, so the
\* guess is one of the candidates.
C12_FewCandidatesGuessAmongThem ==
    (Chosen /\ Cardinality(possible_words) <= 2) =>
        /\ guess \in possible_words
        /\ Range(candidates) \subseteq possible_words

\* Two candidates, and allowed guesses that are not candidates.
C12_Witness ==
    /\ Chosen
    /\ Cardinality(possible_words) = 2
    /\ guess \in possible_words
    /\ Len(candidates) = 2
    /\ valid_guesses \ possible_words # {}

\* The score the claim gives a candidate: the expected number of remaining
\* candidates, plus one half for a word that is not a candidate.
ClaimedScore(candidate) ==
    LET e == WordleBot_calculate_expected_remaining(game_helper_target,
                                                    candidate, possible_words)
    IN  IF candidate \in possible_words THEN e
        ELSE Rational(2 * e.num + e.den, 2 * e.den)

\* a < b on two finite scores
ScoreBelow(a, b) == a.num * b.den < b.num * a.den

C14_CandidatesStartFullAndShrink ==
    /\ (mode \in Modes => possible_words = la_words)
    /\ [][(mode \in Modes) => (possible_words' \subseteq possible_words)]_vars

\* After a round words are gone, others are left, and the loop goes on.
C14_Witness ==
    /\ mode = "solve_with_game"
    /\ pc = "round"
    /\ game.attempts = 1
    /\ possible_words # {}
    /\ possible_words # la_words
    /\ possible_words \subseteq la_words

\* C15: in solve, play_game and solve_with_game on a target of the answer
\* vocabulary, the target is among the candidates at the start of every round.
C15_TargetAmongCandidates ==
    (mode \in TargetModes /\ pc = "round" /\ target \in la_words) =>
        target \in possible_words

\* C16: solve on a target of the answer vocabulary ends solved: when it
\* returns, its last guess is the target.
C16_SolveEndsOnTarget ==
    (mode = "solve" /\ pc = "returned" /\ target \in la_words) =>
        /\ guesses # <<>>
        /\ Last(guesses) = target

\* C17: solve returns exactly when the last guess is the target or the
\* filtered candidate set is empty, and the value returned is the number of
\* guesses made; while it goes on neither holds, so no guess is ever chosen
\* from an empty set.
C17_ReturnsOnSolvedOrExhausted ==
    mode = "solve" =>
        /\ pc = "returned" =>
              /\ guesses # <<>>
              /\ Last(guesses) = target \/ possible_words = {}
              /\ result = Len(guesses)
        /\ (pc = "round" /\ guesses # <<>>) =>
              /\ Last(guesses) # target
              /\ possible_words # {}
        /\ pc # "IndexError"

\* solve gave up: two guesses made, neither the target, no candidate left.
C17_Witness ==
    /\ mode = "solve"
    /\ pc = "returned"
    /\ possible_words = {}
    /\ Len(guesses) = 2
    /\ Last(guesses) # target
    /\ result = 2

\* C18: when the game rejects the guess the candidate set stays as it was and
\* the count returned leaves the rejected guess out: solve_with_game returns
\* the number of guesses made before it, play_game the game's attempts.
C18_RejectedGuessNotCounted ==
    [][(outcome # "rejected" /\ outcome' = "rejected") =>
          /\ possible_words' = possible_words
          /\ mode = "solve_with_game" => result' = Len(guesses)
          /\ mode = "play_game" => result'[1] = game.attempts]_vars

\* A code that is not five characters, each one of G, Y, X.
NotFiveGYX(str) ==
    Len(str) # 5 \/ \E k \in 1..Len(str) : str[k] \notin {"G", "Y", "X"}

\* A code that is not five characters, each one of G, Y, X in either case.
NotFiveGYXAnyCase(str) ==
    \/ Len(str) # 5
    \/ \E k \in 1..Len(str) : str[k] \notin {"G", "Y", "X", "g", "y", "x"}

\* The head of the history is about to be replayed.
Replaying ==
    mode = "solve_from_state" /\ pc = "replay" /\ previous_guesses # <<>>

\* The entry was reported and passed over, the replay goes on with the rest.
Skipped ==
    /\ reported' = reported + 1
    /\ possible_words' = possible_words
    /\ guesses' = guesses
    /\ feedback' = feedback
    /\ previous_guesses' = Tail(previous_guesses)
    /\ pc' = "replay"

\* The line was reported and the prompt is shown again.
Reprompted ==
    /\ reported' = reported + 1
    /\ possible_words' = possible_words
    /\ guesses' = guesses
    /\ feedback' = feedback
    /\ pc' = "prompt"

\* C19 as claimed: a replayed entry whose code is not exactly five characters
\* from {G, Y, X} is reported and skipped, the rest is still replayed; such a
\* line typed at a prompt is asked for again; neither changes the candidate
\* set or the guess count.
C19_MalformedCodeSkipped ==
    [][/\ (Replaying /\ NotFiveGYX(Head(previous_guesses)[2])) => Skipped
       /\ (pc = "prompt" /\ NotFiveGYX(typed_line')) => Reprompted]_vars

\* C19 as the code has it: the letters of a code count in either case, and a
\* typed line is stripped of the blanks around it first.
C19_MalformedCodeSkippedAnyCase ==
    [][/\ (Replaying /\ NotFiveGYXAnyCase(Head(previous_guesses)[2]))
             => Skipped
       /\ (pc = "prompt" /\ NotFiveGYXAnyCase(Strip(typed_line')))
             => Reprompted]_vars

\* A malformed first entry was passed over: nothing is guessed, the candidates
\* are all there, the second entry is still to be replayed.
C19_Witness ==
    /\ mode = "solve_from_state"
    /\ pc = "replay"
    /\ reported = 1
    /\ guesses = <<>>
    /\ possible_words = la_words
    /\ previous_guesses = <<<<ROATE, XYGXY>>>>

C23_AllGreenIffGuessIsTarget ==
    FeedbackComputed =>
        /\ Len(guess) = Len(target)
        /\ (AllGreen(feedback) <=> guess = target)

\* The target itself was guessed and every entry of its feedback is GREEN.
C23_Witness ==
    /\ FeedbackComputed
    /\ guess = SLATE
    /\ target = SLATE
    /\ Len(feedback) = 5
    /\ AllGreen(feedback)


\* ------------------------------------------------------------------- C24
\* C24 (as claimed): after every call of WordleBot._get_feedback, one that
\* returns or one that fails on a guess longer than the target, the helper
\* game's target is the word it was before the call.
C24_HelperTargetRestored ==
    [][game_helper_target' = game_helper_target]_vars

\* A call failed on a five-letter guess and a shorter target, and the helper
\* game is left holding that target.
C24_TargetLeftOverwritten ==
    /\ pc = "IndexError"
    /\ guess = CRANE
    /\ Len(target) < 5
    /\ game_helper_target = target


\* ------------------------------------------------------------------- C26
\* The words a game has accepted, hard mode on.
HardModeGame == mode = "game" /\ game.hard_mode

\* C26 (as claimed): in a hard-mode game every accepted guess has each letter
\* that an earlier accepted guess revealed as Exact at the position where it
\* was revealed, and contains each letter revealed as Present, away from the
\* position where it was revealed Present.
C26_HardModeReusesRevealedLetters ==
    HardModeGame =>
        \A k \in 1..Len(guesses) : \A j \in 1..(k - 1) : \A i \in 1..5 :
            /\ PositionClass(guesses[j], target, i) = GREEN =>
                  guesses[k][i] = guesses[j][i]
            /\ PositionClass(guesses[j], target, i) = YELLOW =>
                  /\ In(guesses[j][i], guesses[k])
                  /\ guesses[k][i] # guesses[j][i]

\* CRANE revealed A and E of SLATE as Exact at positions 3 and 5; AEGIS, with
\* neither there, was accepted next.
C26_AegisAcceptedAfterCrane ==
    /\ HardModeGame
    /\ target = SLATE
    /\ guesses = <<CRANE, AEGIS>>
    /\ game.attempts = 2


\* ------------------------------------------------------------------- C29
\* The guess that make_guess tests, taken by the four tests of the claim.
InvalidGuess(self, word) ==
    \/ Len(word) # 5
    \/ \E k \in 1..Len(word) : word[k] \notin Letters
    \/ word \notin self.valid_guesses
    \/ self.hard_mode /\ ~WordleGame_is_valid_hard_mode(self, word)

\* C29: a make_guess call on an invalid guess (wrong length, not alphabetic,
\* in no list, or against the hard-mode constraints) returns False and leaves
\* attempts, all_guesses, guessed_letters, won and the hard-mode constraint
\* sets as they were.
C29_InvalidGuessLeavesGame ==
    [][(mode = "game" /\ InvalidGuess(game, guess')) =>
          /\ outcome' = "rejected"
          /\ game'.attempts = game.attempts
          /\ game'.all_guesses = game.all_guesses
          /\ game'.guessed_letters = game.guessed_letters
          /\ game'.won = game.won
          /\ game'.required_green_positions = game.required_green_positions
          /\ game'.required_yellow_letters = game.required_yellow_letters
          /\ game'.yellow_positions = game.yellow_positions]_vars

\* After CRANE, a hard-mode game on SLATE turned SLATE down and still counts
\* one attempt.
C29_Witness ==
    /\ HardModeGame
    /\ target = SLATE
    /\ guesses = <<CRANE>>
    /\ typed_line = SLATE
    /\ outcome = "rejected"
    /\ game.attempts = 1
    /\ Len(game.all_guesses) = 1

\* ------------------------------------------------------------------- C30
\* C30 (as claimed): whatever make_guess calls were made, attempts is the
\* number of recorded guesses and is at most max_attempts, and no guess is
\* recorded after one that won the game.
C30_AttemptsCountRecordedWithinMax ==
    mode = "game" =>
        /\ game.attempts = Len(game.all_guesses)
        /\ game.attempts <= game.max_attempts
        /\ \A k \in 1..(Len(game.all_guesses) - 1) :
              ~AllGreen(game.all_guesses[k])

\* A seventh guess was recorded by a game that was out of attempts.
C30_SeventhGuessRecorded ==
    /\ mode = "game"
    /\ ~game.won
    /\ game.attempts = 7
    /\ Len(game.all_guesses) = 7


\* ------------------------------------------------------------------- C27
\* The loops that play against a game instance.
AgainstGame == mode \in {"play_game", "solve_with_game"}

\* C27: against a game the bot makes at most max_attempts (6) accepted
\* guesses, and once the game is won or out of attempts the loop makes no
\* further guess and returns, candidates left or not.
C27_GameCapsTheSession ==
    [][AgainstGame =>
          /\ game'.attempts <= MaxAttempts
          /\ WordleGame_is_game_over(game) =>
                /\ game' = game
                /\ guesses' = guesses
                /\ possible_words' = possible_words
                /\ pc' = "returned"]_vars

\* play_game returned after six accepted guesses, the game not won and
\* candidates still left.
C27_Witness ==
    /\ mode = "play_game"
    /\ pc = "returned"
    /\ outcome = "game_over"
    /\ result = <<6, FALSE>>
    /\ game.attempts = MaxAttempts
    /\ ~game.won
    /\ possible_words # {}

\* ------------------------------------------------------------------- C28
\* C28 (as claimed): a round of solve() that does not end the session leaves
\* a candidate set strictly inside the one it started with.
C28_RoundShrinksCandidates ==
    [][(mode = "solve" /\ pc = "round" /\ pc' = "round") =>
          /\ possible_words' \subseteq possible_words
          /\ possible_words' # possible_words]_vars

\* solve() on the answer CCCAB guessed AABBA twice and still holds the three
\* candidates it started with.
C28_SameRoundAgain ==
    /\ mode = "solve"
    /\ pc = "round"
    /\ target = CCCAB
    /\ guesses = <<AABBA, AABBA>>
    /\ possible_words = {CACBC, CBCCA, CCCAB}


\* ------------------------------------------------------------------- C25
\* x = y on scores
SameScore(x, y) == x.num * y.den = y.num * x.den

\* C25: two runs of _choose_optimal_guess on the same candidate set and the
\* same allowed set, whatever the iteration orders of the two sets in each
\* run, return guesses of equal score.
C25_TwoRunsEqualScore ==
    (mode = "twice" /\ Len(guesses) = 2) =>
        SameScore(candidate_score(game_helper_target, guesses[1],
                                  possible_words),
                  candidate_score(game_helper_target, guesses[2],
                                  possible_words))

\* Two runs on three candidates or more returned different guesses.
C25_Witness ==
    /\ mode = "twice"
    /\ Len(guesses) = 2
    /\ guesses[1] # guesses[2]
    /\ Cardinality(possible_words) >= 3
    /\ scored >= 3


\* ------------------------------------------------------------------- C21
\* The guess the call returns when no thread runs beside it: the result of the
\* call made in one piece, on the same sets iterated in the same orders.
GuessWithoutSpinner ==
    WordleBot_choose_optimal_guess(
        candidate_scores(game_helper_target, possible_words, valid_guesses),
        frame.possible_list, frame.valid_list, FALSE).guess

\* C21: whatever the steps of the spinner thread between those of the scoring
\* loop, the call returns the guess it returns without a spinner.
C21_SpinnerLeavesGuess ==
    (mode = "spinner" /\ pc = "chosen") => guess = GuessWithoutSpinner

\* A call with the spinner returned on three candidates after the thread had
\* printed a frame between two steps of the scoring loop and is still running.
C21_Witness ==
    /\ mode = "spinner"
    /\ pc = "chosen"
    /\ frame.show_spinner
    /\ Cardinality(possible_words) = 3
    /\ scored = 5
    /\ spinner.i = MaxFrames
    /\ spinner.pc = "print"
    /\ guess \in SpinnerValid


\* ------------------------------------------------------------------- C22
\* A file that is there, can be read and holds a word.
HasWords(file) ==
    file.state = "file" /\ \E k \in 1..Len(file.lines) :
                               Strip(file.lines[k]) # <<>>

\* C22 (as claimed): a bot is built and a guess chosen only when both word
\* list files are there, can be read and hold a word; otherwise construction
\* has ended in a fatal error.
C22_NoGuessOnBadVocabulary ==
    (mode = "boot" /\ pc \in {"constructed", "chosen"}) =>
        HasWords(la_file) /\ HasWords(ta_file)

\* A guess was chosen by a bot built on an extended list without a word.
C22_GuessOnEmptyTaList ==
    /\ mode = "boot"
    /\ pc = "chosen"
    /\ ~HasWords(ta_file)
    /\ ta_words = {}
    /\ guess \in la_words

\* ------------------------------------------------------------------- C32
\* C32 (as claimed): for every guess and target of equal length the
\* _get_feedback of game/wordle.py and the _get_feedback of
\* game/wordle_game.py return the same sequence of (letter, color) pairs.
C32_BothGamesSameFeedback ==
    pc = "wordle_feedback" =>
        wordle_feedback = WordleGame_get_feedback(target, guess)

\* The two sequences of one guess differ although they hold the same pairs:
\* game/wordle.py is in position order, game/wordle_game.py is not.
C32_SamePairsOtherOrder ==
    /\ pc = "wordle_feedback"
    /\ Len(guess) = Len(target)
    /\ wordle_feedback # WordleGame_get_feedback(target, guess)
    /\ wordle_feedback = PositionFeedback(guess, target)
    /\ \A k \in 1..Len(guess) :
          Occ(wordle_feedback[k], wordle_feedback)
              = Occ(wordle_feedback[k], WordleGame_get_feedback(target, guess))

\* ------------------------------------------------------------------- C33
\* C33 (as claimed): in a hard-mode game that is not over, whatever guesses
\* were accepted so far, the target satisfies the accumulated hard-mode
\* constraints and make_guess(target) is accepted.
C33_TargetStaysAcceptable ==
    (HardModeGame /\ ~WordleGame_is_game_over(game)) =>
        /\ WordleGame_is_valid_hard_mode(game, target)
        /\ WordleGame_make_guess(game, target, target).accepted

\* CRANE was accepted in a hard-mode game on SLATE; the game is not over and
\* the constraints recorded from CRANE's feedback turn SLATE down.
C33_SlateTurnedDownAfterCrane ==
    /\ HardModeGame
    /\ target = SLATE
    /\ guesses = <<CRANE>>
    /\ game.attempts = 1
    /\ ~WordleGame_is_game_over(game)
    /\ ~WordleGame_make_guess(game, target, SLATE).accepted

\* ------------------------------------------------------------------- C31
\* Thread k was started and has not ended.
Running(k) == k \in DOMAIN threads /\ threads[k].pc # "done"

\* At no time are two spinner threads running.
C31_AtMostOneThread ==
    Cardinality({k \in 1..MaxCalls : Running(k)}) <= 1

\* Every spinner thread that was started ends at some time.
C31_EveryThreadStops ==
    \A k \in 1..MaxCalls :
        (k \in DOMAIN threads) ~> (k \in DOMAIN threads /\ ~Running(k))

\* C31 (as claimed): at most one spinner thread is running at any time, and
\* every spinner thread started by a call of _choose_optimal_guess stops at
\* some time after that call returns, also when the next call begins right
\* after join(timeout=0.2) timed out.
C31_SpinnerLifecycle ==
    /\ [](Cardinality({k \in DOMAIN threads : threads[k].pc # "done"}) <= 1)
    /\ \A k \in 1..MaxCalls :
          [](k \in DOMAIN threads =>
                <>(k \in DOMAIN threads /\ threads[k].pc = "done"))

\* The join of the first call timed out, the next call has started its own
\* thread, and the first thread, which saw the flag raised again, is printing.
C31_TwoThreadsRunning ==
    /\ mode = "lifecycle"
    /\ outcome = "timeout"
    /\ pc = "scoring"
    /\ Len(threads) = 2
    /\ threads[1].pc = "print"
    /\ Running(2)
    /\ spinner_active

====
